---- MODULE Spec2Model ----
(***************************************************************************)
(* dsclock: the configuration stores (PropertyBag, Settings, Theme) as a   *)
(* state machine: one store object, the file named after it, and the       *)
(* operations set / get / load / save / duplicate of property_bag.py and   *)
(* theme.py.                                                               *)
(*                                                                         *)
(* Python values are tagged tuples, so that values of different Python     *)
(* types never compare equal: <<"float", "0.041">>, <<"int", 400>>,        *)
(* <<"bool", "True">>, <<"str", "Sans">>, <<"none">>, and a colour is      *)
(* <<"tuple", r, g, b>> in memory and <<"list", r, g, b>> after a trip     *)
(* through JSON (json.dump writes a tuple as an array, json.load reads an  *)
(* array as a list, and in Python (1.0, 1.0, 1.0) == [1.0, 1.0, 1.0] is    *)
(* False).  <<"missing">> marks a key that a dict does not hold.           *)
(***************************************************************************)
EXTENDS Integers, Sequences, FiniteSets, TLC

VARIABLES store, fs, last, pc, clock, dialog, frame, assets

\* the clock window, its settings dialog, the frame being drawn and the
\* hand-image files: the state of dsclock.py and dialogs.py
gui == <<clock, dialog, frame, assets>>

vars == <<store, fs, last, pc, clock, dialog, frame, assets>>

-----------------------------------------------------------------------------
(* Bounds                                                                  *)

\* Settings 'width' takes the values 400 .. 400 + MaxWidthStep.
MaxWidthStep == 1

-----------------------------------------------------------------------------
(* Python values                                                           *)

None == <<"none">>
Missing == <<"missing">>
PyTrue == <<"bool", "True">>
PyFalse == <<"bool", "False">>
PyStr(s) == <<"str", s>>
PyFloat(s) == <<"float", s>>
PyInt(n) == <<"int", n>>
White == <<"tuple", "1.0", "1.0", "1.0">>
Black == <<"tuple", "0.0", "0.0", "0.0">>

\* json.dump followed by json.load of one value: a tuple comes back as a
\* list; bool, number, string, null and list come back as they were.
JsonRoundTrip(v) ==
    IF v[1] = "tuple" THEN <<"list">> \o Tail(v) ELSE v

\* Python's != on the modelled values (the test of PropertyBag.set).
PyNe(a, b) == a # b

-----------------------------------------------------------------------------
(* Declared defaults.  Theme.DEFAULTS has some sixty entries which no      *)
(* operation relates to one another except the hand-width migration of     *)
(* Theme.load; a behaviour follows one slice of them: the six hand-width   *)
(* keys ("hands") or a colour, an enum string and a nullable string        *)
(* ("face").                                                               *)

HandTypes == {"hour", "minute", "second"}

WidthKey(h) ==
    CASE h = "hour" -> "hour_hand_width"
      [] h = "minute" -> "minute_hand_width"
      [] h = "second" -> "second_hand_width"

ImageWidthKey(h) ==
    CASE h = "hour" -> "hour_hand_image_width"
      [] h = "minute" -> "minute_hand_image_width"
      [] h = "second" -> "second_hand_image_width"

ThemeHandDefaults ==
    [k \in {WidthKey(h) : h \in HandTypes} \cup {ImageWidthKey(h) : h \in HandTypes} |->
        CASE k = "hour_hand_width" -> PyFloat("0.041")
          [] k = "minute_hand_width" -> PyFloat("0.025")
          [] k = "second_hand_width" -> PyFloat("0.01")
          [] OTHER -> PyFloat("1.0")]

ThemeFaceDefaults ==
    [k \in {"background_color", "hour_tick_style", "face_texture_name"} |->
        CASE k = "background_color" -> White
          [] k = "hour_tick_style" -> PyStr("square")
          [] k = "face_texture_name" -> None]

SettingsDefaults ==
    [k \in {"window_x", "width", "show_date_box", "active_theme_name"} |->
        CASE k = "window_x" -> None
          [] k = "width" -> PyInt(400)
          [] k = "show_date_box" -> PyTrue
          [] k = "active_theme_name" -> PyStr("default")]

Slices == {"settings", "hands", "face"}

DEFAULTS(slice) ==
    CASE slice = "settings" -> SettingsDefaults
      [] slice = "hands" -> ThemeHandDefaults
      [] slice = "face" -> ThemeFaceDefaults

DeclaredKeys(slice) == DOMAIN DEFAULTS(slice)

\* A key no DEFAULTS declares: an argument of get/set, or an entry of a file.
UnknownKey == "comment"

AllKeys(slice) == DeclaredKeys(slice) \cup {UnknownKey}

\* The values a caller passes for a key (colours as tuples, as
\* CustomizeDialog._rgba_to_tuple makes them).
SetValues(k) ==
    CASE k \in {WidthKey(h) : h \in HandTypes} -> {ThemeHandDefaults[k], PyFloat("0.05")}
      [] k \in {ImageWidthKey(h) : h \in HandTypes} -> {PyFloat("1.0"), PyFloat("2.0")}
      [] k = "background_color" -> {White, Black}
      [] k = "hour_tick_style" -> {PyStr("square"), PyStr("round")}
      [] k = "face_texture_name" -> {None, PyStr("wood.png")}
      [] k = "window_x" -> {None, PyInt(10)}
      [] k = "width" -> {PyInt(400 + i) : i \in 0..MaxWidthStep}
      [] k = "show_date_box" -> {PyTrue, PyFalse}
      [] k = "active_theme_name" -> {PyStr("default"), PyStr("t1")}
      [] OTHER -> {PyStr("x")}

-----------------------------------------------------------------------------
(* dicts: functions over AllKeys(slice), Missing where the key is absent   *)

\* self.DEFAULTS.copy()
DefaultsCopy(slice) ==
    [k \in AllKeys(slice) |->
        IF k \in DeclaredKeys(slice) THEN DEFAULTS(slice)[k] ELSE Missing]

\* d.get(k, default)
DictGet(d, k, default) == IF d[k] # Missing THEN d[k] ELSE default

\* the loaded document taken as the dict, with no defaults under it
DictUpdate_Replaces(d, loaded) == loaded

\* d.update(loaded): every key of loaded, declared or not, goes into d
DictUpdate(d, loaded) ==
    [k \in DOMAIN d |-> IF loaded[k] # Missing THEN loaded[k] ELSE d[k]]

\* the document json.dump(self._properties, f) writes, as json.load reads it
JsonDump(props) ==
    [k \in DOMAIN props |->
        IF props[k] = Missing THEN Missing ELSE JsonRoundTrip(props[k])]

-----------------------------------------------------------------------------
(* Files.  kind: "absent"; "object" (a JSON object, obj its entries);      *)
(* "badjson" (text that is not JSON); "truncated" (what open(path, 'w')    *)
(* leaves before the document is written out: empty or cut short, not      *)
(* JSON); "undecodable" (bytes that are not text in the locale's encoding);*)
(* "nondict" (JSON that dict.update rejects: [1, 2], 3, null, true, "ab"); *)
(* "emptylist" (JSON [] or "", which dict.update accepts as no entries).   *)

NoObj == <<>>
Absent == [kind |-> "absent", obj |-> NoObj]
Truncated == [kind |-> "truncated", obj |-> NoObj]
Object(o) == [kind |-> "object", obj |-> o]
BrokenKinds == {"badjson", "undecodable", "nondict", "emptylist"}

Paths == {"settings.json", "themes/default.json", "themes/t1.json", "themes/t2.json"}
NoPath == "None"

\* os.path.join(themes_dir, f"{name}.json")
ThemePath(themes_dir, name) == themes_dir \o "/" \o name \o ".json"

-----------------------------------------------------------------------------
(* Store objects                                                           *)

\* PropertyBag.__init__(file_path), for the class whose DEFAULTS is slice's
PropertyBag_init(cls, slice, name, themes_dir, file_path) ==
    [cls |-> cls, slice |-> slice, name |-> name, themes_dir |-> themes_dir,
     file_path |-> file_path, props |-> DefaultsCopy(slice), dirty |-> FALSE]

\* Settings.__init__(settings_file)
Settings_init(settings_file) ==
    PropertyBag_init("Settings", "settings", "", NoPath, settings_file)

\* Theme.__init__(name, themes_dir): the default theme and a theme without a
\* themes directory have no file path
Theme_init(slice, name, themes_dir) ==
    PropertyBag_init("Theme", slice, name, themes_dir,
        IF name = "default" \/ themes_dir = NoPath
        THEN NoPath ELSE ThemePath(themes_dir, name))

\* The file on disk that carries the store's name, whether or not the store
\* has a file path (a themes directory may hold a default.json).
DiskPath(s) ==
    IF s.cls = "Settings" THEN s.file_path
    ELSE IF s.themes_dir = NoPath THEN NoPath
    ELSE ThemePath(s.themes_dir, s.name)

\* The result of a call: the store after it, the Python value it returned (or
\* <<"exc", name>> for the exception it raised), and whether it raised.
Returned(s, ret) == [store |-> s, ret |-> ret, raised |-> FALSE]
Raised(s, exc) == [store |-> s, ret |-> <<"exc", exc>>, raised |-> TRUE]

\* set() that marks the store dirty without comparing the values
PropertyBag_set_MarksAlways(s, key, value) ==
    IF key \notin DeclaredKeys(s.slice)
    THEN Raised(s, "AssertionError")
    ELSE Returned([s EXCEPT !.props[key] = value, !.dirty = TRUE], None)

\* set() that stores the value and forgets the dirty flag
PropertyBag_set_NeverMarks(s, key, value) ==
    IF key \notin DeclaredKeys(s.slice)
    THEN Raised(s, "AssertionError")
    ELSE Returned([s EXCEPT !.props[key] = value], None)

\* PropertyBag.set(key, value)
PropertyBag_set(s, key, value) ==
    IF key \notin DeclaredKeys(s.slice)
    THEN Raised(s, "AssertionError")
    ELSE IF PyNe(DictGet(s.props, key, None), value)
         THEN Returned([s EXCEPT !.props[key] = value, !.dirty = TRUE], None)
         ELSE Returned(s, None)

\* get() that answers with the declared default instead of the stored value
PropertyBag_get_ReturnsDefault(s, key, default) ==
    IF key \notin DeclaredKeys(s.slice)
    THEN Raised(s, "AssertionError")
    ELSE Returned(s, DEFAULTS(s.slice)[key])

\* PropertyBag.get(key, default=None)
PropertyBag_get(s, key, default) ==
    IF key \notin DeclaredKeys(s.slice)
    THEN Raised(s, "AssertionError")
    ELSE IF default # None
         THEN Returned(s, DictGet(s.props, key, default))
         ELSE Returned(s, DictGet(s.props, key, DEFAULTS(s.slice)[key]))

\* os.path.exists(path)
Exists(files, path) == path # NoPath /\ files[path].kind # "absent"

\* The try block of PropertyBag.load: open, json.load, overlay on the defaults.
\* JSONDecodeError and IOError are caught; the UnicodeDecodeError of a file
\* that is not text (raised by the read, before anything is assigned) and the
\* TypeError or ValueError of dict.update on JSON that is no object (raised
\* after the defaults are assigned) are not.
PropertyBag_load_file(s, file) ==
    LET reset == [s EXCEPT !.props = DefaultsCopy(s.slice)]
    IN CASE file.kind = "undecodable" -> Raised(s, "UnicodeDecodeError")
         [] file.kind \in {"badjson", "truncated"} ->
              Returned([reset EXCEPT !.dirty = FALSE], PyFalse)
         [] file.kind = "nondict" -> Raised(reset, "TypeError")
         [] file.kind = "emptylist" ->
              Returned([reset EXCEPT !.dirty = FALSE], PyTrue)
         [] file.kind = "object" ->
              Returned([reset EXCEPT !.props = DictUpdate(reset.props, file.obj),
                                     !.dirty = FALSE], PyTrue)

\* load() that leaves the values alone when there is no file
PropertyBag_load_KeepsValues(s, files) ==
    IF s.file_path = NoPath \/ ~Exists(files, s.file_path)
    THEN Returned([s EXCEPT !.dirty = FALSE], PyFalse)
    ELSE PropertyBag_load_file(s, files[s.file_path])

\* PropertyBag.load()
PropertyBag_load(s, files) ==
    IF s.file_path = NoPath \/ ~Exists(files, s.file_path)
    THEN Returned([s EXCEPT !.props = DefaultsCopy(s.slice), !.dirty = FALSE], PyFalse)
    ELSE PropertyBag_load_file(s, files[s.file_path])

\* a migration that sets the image width of every hand, in the file or not
MigrateHandWidths_Overwrites(props, loaded) ==
    [k \in DOMAIN props |->
        IF \E h \in HandTypes : k = ImageWidthKey(h)
        THEN PyFloat("1.0") ELSE props[k]]

\* The migration loop of Theme.load: a hand whose image-width key the file does
\* not hold gets the image width 1.0; nothing else is touched.
MigrateHandWidths(props, loaded) ==
    [k \in DOMAIN props |->
        IF (\E h \in HandTypes : k = ImageWidthKey(h)) /\ loaded[k] = Missing
        THEN PyFloat("1.0") ELSE props[k]]

\* The try block of Theme.load
Theme_load_file(s, file) ==
    LET r == PropertyBag_load_file(s, file)
    IN CASE file.kind = "object" ->
              Returned([r.store EXCEPT
                          !.props = MigrateHandWidths(r.store.props, file.obj)], PyTrue)
         [] file.kind = "emptylist" ->
              Returned([r.store EXCEPT
                          !.props = MigrateHandWidths(r.store.props,
                                        [k \in DOMAIN r.store.props |-> Missing])], PyTrue)
         [] OTHER -> r

\* Theme.load() without the branch for the default theme
Theme_load_NoDefaultBranch(s, files) ==
    IF s.file_path = NoPath \/ ~Exists(files, s.file_path)
    THEN Returned([s EXCEPT !.props = DefaultsCopy(s.slice), !.dirty = FALSE], PyFalse)
    ELSE Theme_load_file(s, files[s.file_path])

\* Theme.load()
Theme_load(s, files) ==
    IF s.name = "default"
    THEN Returned([s EXCEPT !.props = DefaultsCopy(s.slice), !.dirty = FALSE], PyTrue)
    ELSE IF s.file_path = NoPath \/ ~Exists(files, s.file_path)
    THEN Returned([s EXCEPT !.props = DefaultsCopy(s.slice), !.dirty = FALSE], PyFalse)
    ELSE Theme_load_file(s, files[s.file_path])

\* load() as the store's class defines it
load(s, files) ==
    IF s.cls = "Theme" THEN Theme_load(s, files) ELSE PropertyBag_load(s, files)

\* save() that goes on to the open without a file path
PropertyBag_save_refuses_Never(s) == FALSE

\* PropertyBag.save() up to the open: TRUE when it returns False without
\* touching the disk (no file path)
PropertyBag_save_refuses(s) == s.file_path = NoPath

\* Theme.save(): the default theme is never saved; the others go to
\* PropertyBag.save
Theme_save_refuses(s) == s.name = "default" \/ PropertyBag_save_refuses(s)

save_refuses(s) ==
    IF s.cls = "Theme" THEN Theme_save_refuses(s) ELSE PropertyBag_save_refuses(s)

\* open(self.file_path, 'w'): the file exists and is empty
OpenForWriting(files, path) == [files EXCEPT ![path] = Truncated]

\* json.dump(self._properties, f) run to its end, and the close
WriteDocument(files, path, props) == [files EXCEPT ![path] = Object(JsonDump(props))]

\* PropertyBag.duplicate(): self.__class__(file_path=None), then the copy.
\* Settings.__init__ takes settings_file, not file_path, so the call raises.
PropertyBag_duplicate(s) ==
    IF s.cls = "Settings"
    THEN Raised(s, "TypeError")
    ELSE Returned(s, [PropertyBag_init(s.cls, s.slice, s.name, s.themes_dir, NoPath)
                        EXCEPT !.props = s.props, !.dirty = TRUE])

\* Theme.duplicate(new_name)
Theme_duplicate(s, new_name) ==
    Returned(s, [Theme_init(s.slice, new_name, s.themes_dir)
                    EXCEPT !.props = s.props, !.dirty = TRUE])

duplicate(s, new_name) ==
    IF s.cls = "Theme" THEN Theme_duplicate(s, new_name) ELSE PropertyBag_duplicate(s)

-----------------------------------------------------------------------------
(* What is outside the program: the stores it constructs, the arguments    *)
(* it passes, and the file that another writer (an editor, the theme       *)
(* installer, an earlier run) left under the store's name.                 *)

InitStores ==
    {Settings_init(p) : p \in {"settings.json", NoPath}}
    \cup {Theme_init(sl, n, d) :
            sl \in {"hands", "face"}, n \in {"default", "t1"}, d \in {"themes", NoPath}}

NewNames == {"t2", "default"}

\* the default argument of get: absent (None) or a value
GetDefaults == {None, PyStr("fallback")}

\* A theme file of the hands slice: every hand has its line width, and the
\* hands in new have their image width too (the others are as a file written
\* before the image width existed has them).
HandFiles ==
    {[k \in AllKeys("hands") |->
        IF \E h \in HandTypes : k = WidthKey(h)
        THEN PyFloat("0.05")
        ELSE IF \E h \in new : k = ImageWidthKey(h)
        THEN PyFloat("2.0")
        ELSE Missing] :
      new \in SUBSET HandTypes}

\* A file of another slice: any subset of the declared keys, with a
\* non-default value each, and perhaps an entry under an undeclared key.
OtherValue(k) ==
    CASE k = "background_color" -> <<"list", "0.0", "0.0", "0.0">>
      [] k = "hour_tick_style" -> PyStr("round")
      [] k = "face_texture_name" -> PyStr("wood.png")
      [] k = "window_x" -> PyInt(10)
      [] k = "width" -> PyInt(401)
      [] k = "show_date_box" -> PyFalse
      [] k = "active_theme_name" -> PyStr("t1")
      [] OTHER -> PyStr("x")

SubsetFiles(slice) ==
    {[k \in AllKeys(slice) |-> IF k \in present THEN OtherValue(k) ELSE Missing] :
      present \in SUBSET AllKeys(slice)}

ExternalFiles(slice) ==
    {Absent}
    \cup {[kind |-> b, obj |-> NoObj] : b \in BrokenKinds}
    \cup {Object(o) : o \in IF slice = "hands" THEN HandFiles ELSE SubsetFiles(slice)}

-----------------------------------------------------------------------------
(* The state machine.  last is the call that was made last: op, its key    *)
(* and value (or new name) argument, what it returned (or the exception's  *)
(* name), whether it raised, and the dirty flag it found.  For the open of *)
(* save, and a crash after it, arg is the file the open found.             *)
(* pc is "idle"                                                            *)
(* between calls, "saving" inside save() between the open and the end of   *)
(* the write, "crashed" once the process died there.                       *)
(* No window is open in these behaviours: clock, dialog, frame and assets  *)
(* stay as NoGui has them.                                                 *)

NoGui == <<"none">>

NoArg == <<"noarg">>

Call(op, key, arg, r) ==
    [op |-> op, key |-> key, arg |-> arg, ret |-> r.ret, raised |-> r.raised,
     dirty0 |-> store.dirty]

\* A store is constructed while the disk holds any file, or none, under its
\* name.
Init ==
    /\ store \in InitStores
    /\ \E f \in ExternalFiles(store.slice) :
          fs = [p \in Paths |-> IF p = DiskPath(store) THEN f ELSE Absent]
    /\ last = [op |-> "init", key |-> "", arg |-> NoArg, ret |-> None,
               raised |-> FALSE, dirty0 |-> FALSE]
    /\ pc = "idle"
    /\ clock = NoGui /\ dialog = NoGui /\ frame = NoGui /\ assets = NoGui

Set(key, value) ==
    /\ pc = "idle"
    /\ LET r == PropertyBag_set(store, key, value)
       IN /\ store' = r.store
          /\ last' = Call("set", key, value, r)
    /\ UNCHANGED <<fs, pc>>
    /\ UNCHANGED gui

Get(key, default) ==
    /\ pc = "idle"
    /\ LET r == PropertyBag_get(store, key, default)
       IN /\ store' = r.store
          /\ last' = Call("get", key, NoArg, r)
    /\ UNCHANGED <<fs, pc>>
    /\ UNCHANGED gui

Load ==
    /\ pc = "idle"
    /\ LET r == load(store, fs)
       IN /\ store' = r.store
          /\ last' = Call("load", "", NoArg, r)
    /\ UNCHANGED <<fs, pc>>
    /\ UNCHANGED gui

\* save() that returns False before it opens anything
SaveRefused ==
    /\ pc = "idle"
    /\ save_refuses(store)
    /\ last' = Call("save", "", NoArg, Returned(store, PyFalse))
    /\ UNCHANGED <<store, fs, pc>>
    /\ UNCHANGED gui

\* save() up to open(path, 'w'): the open succeeds and truncates the file, or
\* makedirs or the open raises IOError and save returns False.  (Without a
\* file path os.path.dirname(None) would raise TypeError; the test at the top
\* of save keeps every call away from it.)
SaveOpen(ok) ==
    /\ pc = "idle"
    /\ ~save_refuses(store)
    /\ IF store.file_path = NoPath
       THEN /\ last' = Call("save", "", NoArg, Raised(store, "TypeError"))
            /\ UNCHANGED <<fs, pc>>
       ELSE IF ok
       THEN /\ fs' = OpenForWriting(fs, store.file_path)
            /\ pc' = "saving"
            /\ last' = Call("open", "", fs[store.file_path], Returned(store, None))
       ELSE /\ last' = Call("save", "", NoArg, Returned(store, PyFalse))
            /\ UNCHANGED <<fs, pc>>
    /\ UNCHANGED store
    /\ UNCHANGED gui

\* save() from the open on: the document is written and dirty cleared, or the
\* write raises IOError with the file cut short and save returns False
SaveWrite(ok) ==
    /\ pc = "saving"
    /\ IF ok
       THEN /\ fs' = WriteDocument(fs, store.file_path, store.props)
            /\ store' = [store EXCEPT !.dirty = FALSE]
            /\ last' = Call("save", "", NoArg, Returned(store, PyTrue))
       ELSE /\ last' = Call("save", "", NoArg, Returned(store, PyFalse))
            /\ UNCHANGED <<fs, store>>
    /\ pc' = "idle"
    /\ UNCHANGED gui

\* the process dies between the open and the end of the write
Crash ==
    /\ pc = "saving"
    /\ pc' = "crashed"
    /\ last' = Call("crash", "", last.arg, Returned(store, None))
    /\ UNCHANGED <<store, fs>>
    /\ UNCHANGED gui

Duplicate(new_name) ==
    /\ pc = "idle"
    /\ LET r == duplicate(store, new_name)
       IN /\ store' = r.store
          /\ last' = Call("duplicate", "", PyStr(new_name), r)
    /\ UNCHANGED <<fs, pc>>
    /\ UNCHANGED gui

Next ==
    \/ \E k \in AllKeys(store.slice) : \E v \in SetValues(k) : Set(k, v)
    \/ \E k \in AllKeys(store.slice) : \E d \in GetDefaults : Get(k, d)
    \/ Load
    \/ SaveRefused
    \/ \E ok \in BOOLEAN : SaveOpen(ok)
    \/ \E ok \in BOOLEAN : SaveWrite(ok)
    \/ Crash
    \/ \E n \in NewNames : Duplicate(n)

Spec == Init /\ [][Next]_vars

-----------------------------------------------------------------------------
(* Claims                                                                  *)

Path == store.file_path
Declared == DeclaredKeys(store.slice)
SameFile(a, b) == a.kind = b.kind /\ (a.kind = "object" => a.obj = b.obj)

\* C1 (as stated): the dirty flag goes from false to true only in a set() whose
\* value differs from the stored one, and from true to false only in a load()
\* or save() that reports success (returns True).
C1_DirtyOnlyBySetClearedOnlyBySuccess ==
    [][/\ (~store.dirty /\ store'.dirty) =>
            (last'.op = "set" /\ ~last'.raised /\ store'.props # store.props)
       /\ (store.dirty /\ ~store'.dirty) =>
            (last'.op \in {"load", "save"} /\ ~last'.raised /\ last'.ret = PyTrue)]_vars

\* C1 (amended): the dirty flag goes from false to true only in a set() whose
\* value differs from the stored one, and from true to false only in a load()
\* that returns (True, or False after falling back to the defaults) or in a
\* save() that returns True.
C1_DirtyTransitions ==
    [][/\ (~store.dirty /\ store'.dirty) =>
            (last'.op = "set" /\ ~last'.raised /\ store'.props # store.props)
       /\ (store.dirty /\ ~store'.dirty) =>
            \/ last'.op = "load" /\ ~last'.raised
            \/ last'.op = "save" /\ ~last'.raised /\ last'.ret = PyTrue]_vars

\* a load() that found no usable file returned False and cleared a set dirty flag
C1_Witness ==
    /\ last.op = "load" /\ ~last.raised /\ last.ret = PyFalse
    /\ last.dirty0 /\ ~store.dirty

\* C2: for a declared key, set(k, v) with v equal to the stored value leaves
\* dirty as it was, set(k, v) with another v leaves dirty true, and a save()
\* that returns True leaves dirty false.
C2_SetIdempotence ==
    [][/\ (last'.op = "set" /\ last'.key \in Declared) =>
            /\ ~last'.raised
            /\ IF store.props[last'.key] = last'.arg
               THEN store'.dirty = store.dirty
               ELSE store'.dirty
       /\ (last'.op = "save" /\ last'.ret = PyTrue) => ~store'.dirty]_vars

\* a clean store was made dirty by a set() of a declared key
C2_Witness ==
    /\ last.op = "set" /\ last.key \in Declared
    /\ ~last.dirty0 /\ store.dirty

\* C3: get and set with an undeclared key raise AssertionError and leave the
\* values and the dirty flag as they were; get with a declared key returns the
\* stored value.
C3_UndeclaredKeyFails ==
    [][/\ (last'.op \in {"get", "set"} /\ last'.key \notin Declared) =>
            /\ last'.raised /\ last'.ret = <<"exc", "AssertionError">>
            /\ store'.props = store.props /\ store'.dirty = store.dirty
       /\ (last'.op = "get" /\ last'.key \in Declared) =>
            /\ ~last'.raised /\ last'.ret = store.props[last'.key]
            /\ store' = store]_vars

\* set() with the undeclared key raised on a store that had unsaved changes
C3_Witness ==
    /\ last.op = "set" /\ last.key = UnknownKey /\ last.raised
    /\ store.dirty /\ store.props # DefaultsCopy(store.slice)

\* C4: a load() that follows a save() that returned True gives every declared
\* key the value it had before the save.
C4_RoundTrip ==
    [][/\ last'.op \in {"open", "save"} => store'.props = store.props
       /\ (last.op = "save" /\ last.ret = PyTrue /\ last'.op = "load") =>
            /\ ~last'.raised
            /\ \A k \in Declared : store'.props[k] = store.props[k]]_vars

\* C5: after load() with no file path or no file, get(k) returns the built-in
\* default for every declared key, and load() returned False unless the store
\* is the default theme.
C5_AbsentFileGivesDefaults ==
    (last.op = "load" /\ (Path = NoPath \/ ~Exists(fs, Path))) =>
        /\ ~last.raised
        /\ \A k \in Declared :
              PropertyBag_get(store, k, None) = Returned(store, DEFAULTS(store.slice)[k])
        /\ (store.name # "default") => last.ret = PyFalse

\* load() found no file and replaced edited values by the defaults
C5_Witness ==
    /\ last.op = "load" /\ ~last.raised /\ last.ret = PyFalse
    /\ last.dirty0 /\ store.name # "default"
    /\ Path # NoPath /\ ~Exists(fs, Path)
    /\ store.props = DefaultsCopy(store.slice)

\* what cannot be parsed: text that is not JSON (a document cut short
\* included) and bytes that are not text
Unparsable(file) == file.kind \in {"badjson", "truncated", "undecodable"}

\* C6: load() of an existing file that cannot be parsed resets the values to
\* the defaults and returns False; no load() changes a file.
C6_UnparsableFallsBack ==
    [][last'.op = "load" =>
         /\ fs' = fs
         /\ (Exists(fs, Path) /\ Unparsable(fs[Path])) =>
              /\ ~last'.raised /\ last'.ret = PyFalse
              /\ store'.props = DefaultsCopy(store.slice)]_vars

\* C7: when the process dies inside save(), the file at the store's path is
\* the complete previous version or the complete new version.
C7_CrashLeavesCompleteFile ==
    (pc = "crashed") =>
        \/ SameFile(fs[Path], last.arg)
        \/ SameFile(fs[Path], Object(JsonDump(store.props)))

\* C8: save() of a store with no file path returns False and leaves the
\* values, the dirty flag and the files as they were.
C8_SaveWithoutPath ==
    [][(Path = NoPath /\ last'.op \in {"open", "save"}) =>
         /\ last'.op = "save" /\ ~last'.raised /\ last'.ret = PyFalse
         /\ store' = store /\ fs' = fs /\ pc' = "idle"]_vars

\* save() returned False on a dirty store that has a name but no file path
C8_Witness ==
    /\ last.op = "save" /\ last.ret = PyFalse
    /\ Path = NoPath /\ store.name # "default" /\ store.dirty

\* C9: for the theme named "default", whatever file the disk holds: save()
\* returns False and writes nothing, and load() sets every field to its
\* default, clears dirty and returns True.
C9_DefaultTheme ==
    [][(store.cls = "Theme" /\ store.name = "default") =>
         /\ last'.op \in {"open", "save"} =>
              /\ last'.op = "save" /\ ~last'.raised /\ last'.ret = PyFalse
              /\ store' = store /\ fs' = fs /\ pc' = "idle"
         /\ last'.op = "load" =>
              /\ ~last'.raised /\ last'.ret = PyTrue
              /\ ~store'.dirty
              /\ \A k \in Declared : store'.props[k] = DEFAULTS(store.slice)[k]
              /\ fs' = fs]_vars

\* the default theme was loaded with edited values, beside a default.json
C9_Witness ==
    /\ store.cls = "Theme" /\ store.name = "default"
    /\ last.op = "load" /\ last.dirty0 /\ last.ret = PyTrue
    /\ fs["themes/default.json"].kind = "object"

\* C10: loading a theme file that has h_hand_width and lacks
\* h_hand_image_width gives h_hand_width the file's value and
\* h_hand_image_width 1.0; a file that has both gives both keys the file's
\* values.
C10_AdditiveMigration ==
    (/\ last.op = "load" /\ store.cls = "Theme" /\ store.slice = "hands"
     /\ store.name # "default" /\ Exists(fs, Path) /\ fs[Path].kind = "object") =>
        \A h \in HandTypes :
            LET file == fs[Path].obj
                w == WidthKey(h)
                iw == ImageWidthKey(h)
            IN /\ (file[w] # Missing /\ file[iw] = Missing) =>
                    (store.props[w] = file[w] /\ store.props[iw] = PyFloat("1.0"))
               /\ (file[w] # Missing /\ file[iw] # Missing) =>
                    (store.props[w] = file[w] /\ store.props[iw] = file[iw])

\* a file with a line width alone for the hour hand and both widths for the
\* minute hand was loaded into a theme
C10_Witness ==
    /\ last.op = "load" /\ last.ret = PyTrue /\ store.slice = "hands"
    /\ store.name # "default" /\ Exists(fs, Path) /\ fs[Path].kind = "object"
    /\ fs[Path].obj["hour_hand_width"] = PyFloat("0.05")
    /\ fs[Path].obj["hour_hand_image_width"] = Missing
    /\ fs[Path].obj["minute_hand_image_width"] = PyFloat("2.0")
    /\ last.dirty0

\* C11: after a load() that read an object file, the value map holds no entry
\* under a key that is in the file and not in the defaults, every declared key
\* the file lacks has its built-in default, and a save() that returned True
\* wrote no entry under an undeclared key.
C11_UnknownKeysIgnored ==
    /\ (last.op = "load" /\ ~last.raised /\ last.ret = PyTrue
        /\ Path # NoPath /\ fs[Path].kind = "object") =>
          /\ store.props[UnknownKey] = Missing
          /\ \A k \in Declared :
                fs[Path].obj[k] = Missing => store.props[k] = DEFAULTS(store.slice)[k]
    /\ (last.op = "save" /\ ~last.raised /\ last.ret = PyTrue) =>
          fs[Path].obj[UnknownKey] = Missing

\* C12: duplicate() returns a new store that has the source's value under
\* every declared key and a set dirty flag, with no file path when it is
\* PropertyBag.duplicate() and with the name new_name when it is
\* Theme.duplicate(new_name); the call leaves the source's values, dirty flag
\* and file as they were.
C12_Duplicate ==
    [][last'.op = "duplicate" =>
         /\ ~last'.raised
         /\ \A k \in Declared : last'.ret.props[k] = store.props[k]
         /\ last'.ret.dirty
         /\ IF store.cls = "Theme"
            THEN last'.ret.name = last'.arg[2]
            ELSE last'.ret.file_path = NoPath
         /\ store' = store /\ fs' = fs]_vars

\* C27: load() on an existing file whose text is not JSON, or is JSON that
\* is no object (a list, a number, a string, null), does not raise: it
\* returns a boolean and leaves the store with a value for every declared
\* key and dirty false.
C27_LoadNeverRaises ==
    [][(/\ last'.op = "load" /\ Exists(fs, Path)
        /\ fs[Path].kind \in {"badjson", "truncated", "nondict", "emptylist"}) =>
          /\ ~last'.raised
          /\ last'.ret \in {PyTrue, PyFalse}
          /\ \A k \in Declared : store'.props[k] # Missing
          /\ ~store'.dirty]_vars

\* C28: in every state of a store, after any sequence of construct, set,
\* load (successful or not), save and duplicate, the value map holds every
\* declared key (the copy duplicate() returns too), and get(k) on a declared
\* key returns the stored value, not the fallback default.
C28_DeclaredKeysStored ==
    /\ \A k \in Declared : store.props[k] # Missing
    /\ (last.op = "duplicate" /\ ~last.raised) =>
          \A k \in Declared : last.ret.props[k] # Missing
    /\ (last.op = "get" /\ last.key \in Declared /\ ~last.raised) =>
          last.ret = store.props[last.key]

\* a load has overlaid a file that lacks a declared key, and the key holds
\* its default
C28_Witness ==
    /\ last.op = "load" /\ last.ret = PyTrue
    /\ Exists(fs, Path) /\ fs[Path].kind = "object"
    /\ \E k \in Declared :
          fs[Path].obj[k] = Missing /\ store.props[k] = DEFAULTS(store.slice)[k]

-----------------------------------------------------------------------------
(* The settings dialog (dialogs.py) and the theme it switches.             *)
(*                                                                         *)
(* clock is the AnalogClock: theme is the object self.theme refers to,     *)
(* ready says whether load() or duplicate() had run to its end on that     *)
(* object, settings is self.settings.  dialog is the CustomizeDialog: pc   *)
(* is the handler's position ("idle": no handler runs and GTK's main loop  *)
(* dispatches events; "save_as_dialog": on_theme_activated has called      *)
(* on_save_theme_as_clicked, whose dialog.run() runs the main loop too),   *)
(* theme_name the name the handler works on, caller the theme that         *)
(* on_theme_activated applies once the nested save-as returns, discards    *)
(* the theme whose edits the user chose to discard.  frame is what the     *)
(* last on_draw read.  GTK runs handlers and on_draw on one thread: on_draw*)
(* runs only where the main loop does.  The theme grid (its widgets and    *)
(* preview images) is not part of the state.                               *)

ThemeNames == {"default", "t1", "t2"}
ThemesDir == "themes"
SettingsFile == "settings.json"

\* the keys the dialog's controls edit in these behaviours
EditKeys == {"background_color"}

\* what the disk does to a save(): "ok"; "open_fails" (makedirs or open
\* raises IOError); "write_fails" (json.dump raises IOError after the open
\* emptied the file)
IOs == {"ok", "open_fails", "write_fails"}

\* what the disk does to settings.save() in these behaviours
SettingsIOs == {"ok", "open_fails"}

\* save() as one call
save(s, files, io) ==
    IF save_refuses(s) \/ io = "open_fails"
    THEN [store |-> s, fs |-> files, ret |-> PyFalse]
    ELSE IF io = "write_fails"
    THEN [store |-> s, fs |-> OpenForWriting(files, s.file_path), ret |-> PyFalse]
    ELSE [store |-> [s EXCEPT !.dirty = FALSE],
          fs |-> WriteDocument(files, s.file_path, s.props), ret |-> PyTrue]

\* settings.set('active_theme_name', theme_name); settings.save()
SetActiveTheme(c, files, theme_name, io) ==
    LET r == save(PropertyBag_set(c.settings, "active_theme_name", PyStr(theme_name)).store,
                  files, io)
    IN [clock |-> [c EXCEPT !.settings = r.store], fs |-> r.fs]

DialogIdle == [pc |-> "idle", theme_name |-> "", caller |-> "", discards |-> ""]

\* The theme files a themes directory holds when the program starts.
DialogThemeFiles ==
    {Absent, [kind |-> "undecodable", obj |-> NoObj],
     Object([k \in AllKeys("face") |->
                IF k = "background_color" THEN JsonRoundTrip(Black) ELSE Missing])}

\* AnalogClock.__init__: the settings are loaded, then the active theme; a
\* load that raises ends the program before there is a window.
DialogInit ==
    /\ store = NoGui /\ last = NoGui /\ pc = "idle" /\ assets = NoGui
    /\ \E active \in {"default", "t1"}, f \in DialogThemeFiles :
         /\ fs = [p \in Paths |->
                    IF p = SettingsFile
                    THEN Object([k \in AllKeys("settings") |->
                                   IF k = "active_theme_name" THEN PyStr(active)
                                   ELSE Missing])
                    ELSE IF p = ThemePath(ThemesDir, "t1") THEN f ELSE Absent]
         /\ LET st == load(Settings_init(SettingsFile), fs)
                th == load(Theme_init("face", st.store.props["active_theme_name"][2],
                                      ThemesDir), fs)
            IN /\ ~st.raised /\ ~th.raised
               /\ clock = [theme |-> th.store, ready |-> TRUE, settings |-> st.store]
    /\ dialog = DialogIdle
    /\ frame = [name |-> "", ready |-> TRUE]

\* on_draw: the renderer reads self.theme
Draw ==
    /\ dialog.pc \in {"idle", "save_as_dialog"}
    /\ frame' = [name |-> clock.theme.name, ready |-> clock.ready]
    /\ UNCHANGED <<store, fs, last, pc, clock, dialog, assets>>

\* a control's callback: self.parent_clock.theme.set(key, value)
Edit(key, value) ==
    /\ dialog.pc = "idle"
    /\ clock' = [clock EXCEPT !.theme = PropertyBag_set(clock.theme, key, value).store]
    /\ UNCHANGED <<store, fs, last, pc, dialog, frame, assets>>

\* on_theme_activated up to the call of _apply_theme.  response is the
\* answer to "You have unsaved changes" ("NONE" when the theme is clean and
\* nothing is asked).
on_theme_activated(theme_name, response, io, sio) ==
    /\ dialog.pc = "idle"
    /\ IF ~clock.theme.dirty
       THEN /\ response = "NONE"
            /\ dialog' = [dialog EXCEPT !.pc = "apply", !.theme_name = theme_name]
            /\ UNCHANGED <<clock, fs>>
       ELSE CASE response = "CANCEL" -> UNCHANGED <<clock, fs, dialog>>
              [] response = "NO" ->
                   /\ dialog' = [dialog EXCEPT !.pc = "apply", !.theme_name = theme_name,
                                               !.discards = clock.theme.name]
                   /\ UNCHANGED <<clock, fs>>
              [] response = "YES" /\ clock.theme.name = "default" ->
                   /\ dialog' = [dialog EXCEPT !.pc = "save_as_dialog", !.caller = theme_name]
                   /\ UNCHANGED <<clock, fs>>
              [] response = "YES" /\ clock.theme.name # "default" ->
                   LET t == save(clock.theme, fs, io)
                       st == save(clock.settings, t.fs, sio)
                   IN /\ clock' = [clock EXCEPT !.theme = t.store, !.settings = st.store]
                      /\ fs' = st.fs
                      /\ dialog' = [dialog EXCEPT !.pc = "apply", !.theme_name = theme_name]
              [] OTHER -> FALSE
    /\ UNCHANGED <<store, last, pc, frame, assets>>

\* _apply_theme(theme_name): a new Theme is constructed and loaded, and then
\* put in place of self.parent_clock.theme; a load that raises leaves the
\* handler before the assignment.
_apply_theme(sio) ==
    /\ dialog.pc = "apply"
    /\ LET new_theme == Theme_load(Theme_init("face", dialog.theme_name, ThemesDir), fs)
       IN IF new_theme.raised
          THEN UNCHANGED <<clock, fs>>
          ELSE LET r == SetActiveTheme([clock EXCEPT !.theme = new_theme.store,
                                                     !.ready = TRUE],
                                       fs, dialog.theme_name, sio)
               IN clock' = r.clock /\ fs' = r.fs
    /\ dialog' = DialogIdle
    /\ UNCHANGED <<store, last, pc, frame, assets>>

\* where on_save_theme_as_clicked returns to: the main loop, or the rest of
\* on_theme_activated (which returns if the theme is still dirty and applies
\* the activated theme otherwise)
SaveAsReturns(theme) ==
    IF dialog.caller = "" \/ theme.dirty
    THEN DialogIdle
    ELSE [DialogIdle EXCEPT !.pc = "apply", !.theme_name = dialog.caller]

\* on_save_theme_as_clicked up to new_theme.save(): the name is asked for;
\* an empty name, Cancel and the name 'default' end the handler; otherwise
\* the displayed theme is duplicated under the name and the copy saved.
on_save_theme_as_clicked(theme_name, response, io) ==
    /\ dialog.pc \in {"idle", "save_as_dialog"}
    /\ IF response = "OK" /\ theme_name # "" /\ theme_name # "default"
       THEN LET new_theme == Theme_duplicate(clock.theme, theme_name).ret
            IN /\ fs' = save(new_theme, fs, io).fs
               /\ dialog' = [dialog EXCEPT !.pc = "save_as_assign", !.theme_name = theme_name]
       ELSE /\ dialog' = SaveAsReturns(clock.theme)
            /\ UNCHANGED fs
    /\ UNCHANGED <<store, last, pc, clock, frame, assets>>

\* self.parent_clock.theme = Theme(theme_name, self.parent_clock.themes_dir)
save_as_assign ==
    /\ dialog.pc = "save_as_assign"
    /\ clock' = [clock EXCEPT !.theme = Theme_init("face", dialog.theme_name, ThemesDir),
                              !.ready = FALSE]
    /\ dialog' = [dialog EXCEPT !.pc = "save_as_load"]
    /\ UNCHANGED <<store, fs, last, pc, frame, assets>>

\* self.parent_clock.theme.load() and the rest of on_save_theme_as_clicked; a
\* load that raises leaves the handler (and its caller) there.
save_as_load(sio) ==
    /\ dialog.pc = "save_as_load"
    /\ LET t == Theme_load(clock.theme, fs)
       IN IF t.raised
          THEN /\ clock' = [clock EXCEPT !.theme = t.store]
               /\ dialog' = DialogIdle
               /\ UNCHANGED fs
          ELSE LET r == SetActiveTheme([clock EXCEPT !.theme = t.store, !.ready = TRUE],
                                       fs, dialog.theme_name, sio)
               IN /\ clock' = r.clock /\ fs' = r.fs
                  /\ dialog' = SaveAsReturns(t.store)
    /\ UNCHANGED <<store, last, pc, frame, assets>>

\* on_duplicate_theme_clicked
on_duplicate_theme_clicked(new_name, response, io, sio) ==
    /\ dialog.pc = "idle"
    /\ IF response = "OK" /\ new_name # ""
       THEN LET new_theme == save(Theme_duplicate(clock.theme, new_name).ret, fs, io)
                r == SetActiveTheme([clock EXCEPT !.theme = new_theme.store, !.ready = TRUE],
                                    new_theme.fs, new_name, sio)
            IN clock' = r.clock /\ fs' = r.fs
       ELSE UNCHANGED <<clock, fs>>
    /\ UNCHANGED <<store, last, pc, dialog, frame, assets>>

\* on_delete_theme_clicked: the selected theme is never 'default'; its file
\* is removed, and if it was the active theme _apply_theme('default') runs
on_delete_theme_clicked(theme_name, response) ==
    /\ dialog.pc = "idle"
    /\ theme_name # "default"
    /\ IF response = "YES"
       THEN /\ fs' = [fs EXCEPT ![ThemePath(ThemesDir, theme_name)] = Absent]
            /\ dialog' = IF clock.theme.name = theme_name
                         THEN [dialog EXCEPT !.pc = "apply", !.theme_name = "default"]
                         ELSE dialog
       ELSE UNCHANGED <<fs, dialog>>
    /\ UNCHANGED <<store, last, pc, clock, frame, assets>>

\* _save_theme (the Save button): the theme 'default' goes through
\* on_save_theme_as_clicked; any other theme is saved, then the settings
_save_theme(io, sio) ==
    /\ dialog.pc = "idle"
    /\ IF clock.theme.name = "default"
       THEN /\ dialog' = [dialog EXCEPT !.pc = "save_as_dialog"]
            /\ UNCHANGED <<clock, fs>>
       ELSE LET t == save(clock.theme, fs, io)
                st == save(clock.settings, t.fs, sio)
            IN /\ clock' = [clock EXCEPT !.theme = t.store, !.settings = st.store]
               /\ fs' = st.fs
               /\ UNCHANGED dialog
    /\ UNCHANGED <<store, last, pc, frame, assets>>

\* _handle_close (the Close button, Escape, the window's X): a clean theme
\* closes the dialog; a dirty one asks "Save changes before closing?":
\* Cancel returns, Discard reloads the theme from its file, Save runs
\* _save_theme.  The dialog can be opened again at once, so a closed dialog
\* is the idle one.
_handle_close(response, io, sio) ==
    /\ dialog.pc = "idle"
    /\ IF ~clock.theme.dirty
       THEN /\ response = "NONE"
            /\ UNCHANGED <<clock, fs, dialog>>
       ELSE CASE response = "CANCEL" -> UNCHANGED <<clock, fs, dialog>>
              [] response = "NO" ->
                   /\ clock' = [clock EXCEPT !.theme = Theme_load(clock.theme, fs).store]
                   /\ UNCHANGED <<fs, dialog>>
              [] response = "YES" /\ clock.theme.name = "default" ->
                   /\ dialog' = [dialog EXCEPT !.pc = "save_as_dialog"]
                   /\ UNCHANGED <<clock, fs>>
              [] response = "YES" /\ clock.theme.name # "default" ->
                   LET t == save(clock.theme, fs, io)
                       st == save(clock.settings, t.fs, sio)
                   IN /\ clock' = [clock EXCEPT !.theme = t.store, !.settings = st.store]
                      /\ fs' = st.fs
                      /\ UNCHANGED dialog
              [] OTHER -> FALSE
    /\ UNCHANGED <<store, last, pc, frame, assets>>

\* the window positions get_window_position() reports (None: not known)
WindowPositions == {None, PyInt(10)}

\* on_destroy and on_exit_clicked have the same body: the window position,
\* if known, is put in the settings; self.settings.save(); self.theme.save();
\* Gtk.main_quit().  The settings dialog is not modal (dialog.show()), so
\* both run while it is open, wherever the main loop runs.
SaveAndQuit(x, io, sio) ==
    LET positioned == IF x = None THEN clock.settings
                      ELSE PropertyBag_set(clock.settings, "window_x", x).store
        st == save(positioned, fs, sio)
        t == save(clock.theme, st.fs, io)
    IN /\ clock' = [clock EXCEPT !.settings = st.store, !.theme = t.store]
       /\ fs' = t.fs

on_destroy(x, io, sio) ==
    /\ dialog.pc \in {"idle", "save_as_dialog"}
    /\ SaveAndQuit(x, io, sio)
    /\ dialog' = [dialog EXCEPT !.pc = "destroyed"]
    /\ UNCHANGED <<store, last, pc, frame, assets>>

on_exit_clicked(x, io, sio) ==
    /\ dialog.pc \in {"idle", "save_as_dialog"}
    /\ SaveAndQuit(x, io, sio)
    /\ dialog' = [dialog EXCEPT !.pc = "exited"]
    /\ UNCHANGED <<store, last, pc, frame, assets>>

DialogNext ==
    \/ Draw
    \/ \E k \in EditKeys : \E v \in SetValues(k) : Edit(k, v)
    \/ \E n \in ThemeNames, resp \in {"NONE", "CANCEL", "NO", "YES"}, io \in IOs,
          sio \in SettingsIOs : on_theme_activated(n, resp, io, sio)
    \/ \E sio \in SettingsIOs : _apply_theme(sio)
    \/ \E n \in ThemeNames \cup {""}, resp \in {"OK", "CANCEL"}, io \in IOs :
          on_save_theme_as_clicked(n, resp, io)
    \/ save_as_assign
    \/ \E sio \in SettingsIOs : save_as_load(sio)
    \/ \E n \in ThemeNames \cup {""}, resp \in {"OK", "CANCEL"}, io \in IOs,
          sio \in SettingsIOs : on_duplicate_theme_clicked(n, resp, io, sio)
    \/ \E n \in ThemeNames, resp \in {"YES", "NO"} : on_delete_theme_clicked(n, resp)
    \/ \E io \in IOs, sio \in SettingsIOs : _save_theme(io, sio)
    \/ \E resp \in {"NONE", "CANCEL", "NO", "YES"}, io \in IOs, sio \in SettingsIOs :
          _handle_close(resp, io, sio)
    \/ \E x \in WindowPositions, io \in IOs, sio \in SettingsIOs : on_destroy(x, io, sio)
    \/ \E x \in WindowPositions, io \in IOs, sio \in SettingsIOs : on_exit_clicked(x, io, sio)

DialogSpec == DialogInit /\ [][DialogNext]_vars

\* C13: every switch of the active theme (apply, save-as, duplicate, delete
\* of the active theme) puts a new object, on which load() or duplicate() has
\* run to its end, in place of the renderer's reference, so that the
\* reference never designates a theme that is not fully loaded and on_draw
\* never reads one; and a switch that discards the user's edits leaves the
\* file of the theme that was active as it was.
C13_AtomicSwitch ==
    [][/\ clock'.ready
       /\ frame'.ready
       /\ dialog.discards # "" =>
            fs'[ThemePath(ThemesDir, dialog.discards)]
                = fs[ThemePath(ThemesDir, dialog.discards)]]_vars

\* the theme files a step wrote (removing a file is not writing it)
ThemeFilesWritten ==
    {n \in ThemeNames : /\ fs'[ThemePath(ThemesDir, n)] # fs[ThemePath(ThemesDir, n)]
                        /\ fs'[ThemePath(ThemesDir, n)] # Absent}

\* the steps in which the user chose to save: the Save button, Save in the
\* close prompt, "save changes and switch", Save As, Duplicate
ExplicitSave ==
    \E io \in IOs, sio \in SettingsIOs :
       \/ _save_theme(io, sio)
       \/ _handle_close("YES", io, sio)
       \/ \E n \in ThemeNames :
            \/ on_theme_activated(n, "YES", io, sio)
            \/ on_save_theme_as_clicked(n, "OK", io)
            \/ on_duplicate_theme_clicked(n, "OK", io, sio)

\* C24: a theme file is written only in a step in which the user chose to
\* save (Save button, Save in the close prompt, save-and-switch, Save As,
\* Duplicate); every other step, quitting by the window's destroy or the
\* Exit menu item with a dirty theme included, leaves every theme file with
\* its last saved content.
C24_ThemeFileWrittenOnlyOnSave ==
    [][ThemeFilesWritten # {} => ExplicitSave]_vars

-----------------------------------------------------------------------------
(* The renderer (dsclock.py): one call of _draw_clock_face, stage by       *)
(* stage, for the live view and for the dialog's previews.                 *)
(*                                                                         *)
(* clock is the AnalogClock: theme holds the values the stages read,       *)
(* settings the two switches on_draw reads, _hand_image_cache the cache of *)
(* coloured hand surfaces.  assets says of every hand-image file whether   *)
(* it is absent, an image, or a file GdkPixbuf cannot load ("corrupt").    *)
(* frame is the last call of _draw_clock_face: who called it (kind), the   *)
(* theme and settings it read, the cache it found (cache0) and left        *)
(* (cache1), and the stages it ran (ops);                                  *)
(* the op of a hand says how the hand was drawn: mode "vector" or "image", *)
(* and for an image whether the cache had it (hit), the files loaded and   *)
(* the colourisations made, the surface and pivot used, and whether        *)
(* anything reached the canvas (drawn).  The themes of these behaviours    *)
(* have no face texture.                                                   *)

Red == <<"tuple", "1.0", "0.0", "0.0">>

SourceKey(h) == h \o "_hand_image_source"
NameKey(h) == h \o "_hand_image_name"

\* tuple(hand_color)
PyTuple(v) == <<"tuple">> \o Tail(v)

\* the truth value Python gives a value in 'if x' and 'not x'
Truthy(v) == v \notin {None, PyFalse, PyStr(""), PyInt(0)}

\* the three places a hand image is looked for, in the order of
\* resolve_hand_image_path
Variants == <<"processed", "original", "legacy">>

\* a path, as its components: os.path.join(hand_dir, variant, f'{h}.png'),
\* with no variant directory for the legacy place
HandImagePath(source, name, variant, h) ==
    <<IF source = "user" THEN "~/.config/dsclock/hands" ELSE "assets/hands",
      name, variant, h>>

\* the hand-image files of these behaviours: the built-in set "classic"
AssetPaths ==
    {HandImagePath("builtin", "classic", Variants[i], h) : i \in 1..3, h \in HandTypes}

\* os.path.exists(path) for a hand image
ImageExists(files, path) == path \in DOMAIN files /\ files[path] # "absent"

\* a resolve_hand_image_path that looks at the files alone
resolve_hand_image_path_IgnoresSource(theme, files, h) ==
    LET p(i) == HandImagePath("builtin", "classic", Variants[i], h)
    IN IF ImageExists(files, p(1)) THEN PyStr(p(1))
       ELSE IF ImageExists(files, p(2)) THEN PyStr(p(2))
       ELSE IF ImageExists(files, p(3)) THEN PyStr(p(3))
       ELSE None

\* resolve_hand_image_path(hand_type)
resolve_hand_image_path(theme, files, h) ==
    LET source == theme[SourceKey(h)]
        name == theme[NameKey(h)]
        p(i) == HandImagePath(source[2], name[2], Variants[i], h)
    IN IF source = PyStr("none") \/ ~Truthy(name) THEN None
       ELSE IF ImageExists(files, p(1)) THEN PyStr(p(1))
       ELSE IF ImageExists(files, p(2)) THEN PyStr(p(2))
       ELSE IF ImageExists(files, p(3)) THEN PyStr(p(3))
       ELSE None

NoSurface == <<"none">>

\* a stage that draws no hand
Stage(name) ==
    [stage |-> name, mode |-> "", hit |-> FALSE, loads |-> 0, colourised |-> 0,
     drawn |-> TRUE, key |-> NoSurface, surface |-> NoSurface, pivot |-> NoSurface]

\* a cache key that leaves the colour out
cache_key_PathOnly(image_path, hand_color) == <<image_path, Black>>

\* cache_key = (image_path, tuple(hand_color))
cache_key(image_path, hand_color) == <<image_path, PyTuple(hand_color)>>

\* _draw_hand_image: the cached surface is used; or the file is loaded, its
\* pivot found, the surface coloured with hand_color and the pair cached;
\* or the load raises, the except clause prints the error and nothing is
\* drawn.
_draw_hand_image(cache, theme, files, image_path, h) ==
    LET hand_color == IF h = "second" THEN theme["second_hand_color"]
                      ELSE theme["hands_color"]
        key == cache_key(image_path, hand_color)
        op == [Stage(h \o "_hand") EXCEPT !.mode = "image", !.key = key]
        made == [surface |-> [image |-> image_path, colour |-> PyTuple(hand_color)],
                 pivot |-> image_path]
    IN IF key \in DOMAIN cache
       THEN [cache |-> cache,
             op |-> [op EXCEPT !.hit = TRUE, !.surface = cache[key].surface,
                               !.pivot = cache[key].pivot]]
       ELSE IF files[image_path] = "corrupt"
       THEN [cache |-> cache, op |-> [op EXCEPT !.loads = 1, !.drawn = FALSE]]
       ELSE [cache |-> [k \in DOMAIN cache \cup {key} |->
                           IF k = key THEN made ELSE cache[k]],
             op |-> [op EXCEPT !.loads = 1, !.colourised = 1,
                               !.surface = made.surface, !.pivot = made.pivot]]

\* draw_hour_hand, draw_minute_hand, draw_second_hand: the image if a path
\* resolves, the geometric hand otherwise
draw_hand(cache, theme, files, h) ==
    LET hand_image_path == resolve_hand_image_path(theme, files, h)
    IN IF hand_image_path # None
       THEN _draw_hand_image(cache, theme, files, hand_image_path[2], h)
       ELSE [cache |-> cache, op |-> [Stage(h \o "_hand") EXCEPT !.mode = "vector"]]

\* _draw_clock_face(cr, ..., show_date, show_seconds): the cache it leaves and
\* the stages it ran
_draw_clock_face(cache, theme, files, show_date, show_seconds) ==
    LET stages(hour, minute, second) ==
           [cache |-> IF Truthy(show_seconds) THEN second.cache ELSE minute.cache,
            ops |-> (IF Truthy(theme["enable_face_color"]) THEN <<Stage("face_color")>>
                     ELSE <<>>)
                    \o <<Stage("rim"), Stage("ticks_and_numbers"), hour.op, minute.op>>
                    \o (IF Truthy(show_seconds) THEN <<second.op>> ELSE <<>>)
                    \o <<Stage("center_dot")>>
                    \o (IF Truthy(show_date) THEN <<Stage("date_box")>> ELSE <<>>)]
        after_minute(hour, minute) ==
           stages(hour, minute, draw_hand(minute.cache, theme, files, "second"))
        after_hour(hour) ==
           after_minute(hour, draw_hand(hour.cache, theme, files, "minute"))
    IN after_hour(draw_hand(cache, theme, files, "hour"))

\* what a preview passes for show_date when it follows the setting
PreviewShowDate_FromSettings(settings) == settings["show_date_box"]

\* _generate_theme_preview and _generate_preview_surface_from_current_state
\* pass show_date=False
PreviewShowDate(settings) == PyFalse

\* the frame a caller of _draw_clock_face gets, and the cache afterwards; by
\* is the dialog handler that had the frame drawn, if one had
Render(kind, cache, theme, settings, files) ==
    LET drawn(r) ==
           [cache |-> r.cache,
            frame |-> [kind |-> kind, by |-> "", theme |-> theme, settings |-> settings,
                       cache0 |-> cache, cache1 |-> r.cache, ops |-> r.ops]]
    IN drawn(_draw_clock_face(cache, theme, files,
                              IF kind = "live" THEN settings["show_date_box"]
                              ELSE PreviewShowDate(settings),
                              settings["show_second_hand"]))

\* The hand settings a theme can hold: what the dialog's pickers set
\* (source and name together) and what a theme file may hold beside that
\* (a source without a name).
HandChoices == {<<PyStr("none"), None>>, <<PyStr("builtin"), PyStr("classic")>>,
                <<PyStr("builtin"), None>>}

RenderKeys ==
    {SourceKey(h) : h \in HandTypes} \cup {NameKey(h) : h \in HandTypes}
    \cup {"hands_color", "second_hand_color", "enable_face_color"}

\* the theme whose hands are set as choice says
RenderTheme(choice, hands_color, enable_face_color) ==
    [k \in RenderKeys |->
        CASE k = "hands_color" -> hands_color
          [] k = "second_hand_color" -> Red
          [] k = "enable_face_color" -> enable_face_color
          [] \E h \in HandTypes : k = SourceKey(h) ->
               choice[CHOOSE h \in HandTypes : k = SourceKey(h)][1]
          [] OTHER -> choice[CHOOSE h \in HandTypes : k = NameKey(h)][2]]

\* the themes a theme file can give the program; colours come from a file as
\* lists
FileThemes ==
    {RenderTheme([h \in HandTypes |-> choice], Black, PyTrue) : choice \in HandChoices}

\* the themes the dialog's grid offers
OtherThemes ==
    {RenderTheme([h \in HandTypes |-> <<PyStr("builtin"), PyStr("classic")>>],
                 JsonRoundTrip(White), PyFalse),
     RenderTheme([h \in HandTypes |-> <<PyStr("none"), None>>], Black, PyTrue)}

\* Where the image of a hand is: under processed/ (loadable or corrupt),
\* under original/ only, beside the directories only (legacy), or nowhere.
AssetLayout(layout) ==
    [path \in AssetPaths |->
        IF \E h \in HandTypes :
              /\ layout[h] \in {"processed", "original", "legacy"}
              /\ path = HandImagePath("builtin", "classic", layout[h], h)
        THEN "image"
        ELSE IF \E h \in HandTypes :
              /\ layout[h] = "corrupt"
              /\ path = HandImagePath("builtin", "classic", "processed", h)
        THEN "corrupt"
        ELSE "absent"]

AssetLayouts ==
    {AssetLayout(l) : l \in
        {[hour |-> "processed", minute |-> "original", second |-> "corrupt"],
         [hour |-> "corrupt", minute |-> "absent", second |-> "legacy"]}}

NoFrame == [kind |-> "none", by |-> "", theme |-> <<>>, settings |-> <<>>, cache0 |-> <<>>,
            cache1 |-> <<>>, ops |-> <<>>]
NoCache == <<>>

\* AnalogClock.__init__: the theme is loaded, the cache is empty, nothing is
\* drawn yet
RenderInit ==
    /\ store = NoGui /\ last = NoGui /\ pc = "idle" /\ fs = NoGui /\ dialog = NoGui
    /\ assets \in AssetLayouts
    /\ \E theme \in FileThemes, sd \in {PyTrue, PyFalse} :
          clock = [theme |-> theme,
                   settings |-> [show_date_box |-> sd, show_second_hand |-> PyTrue],
                   _hand_image_cache |-> NoCache]
    /\ frame = NoFrame

RenderUnchanged == UNCHANGED <<store, fs, last, pc, dialog, assets>>

\* on_draw: the live view
on_draw ==
    /\ LET r == Render("live", clock._hand_image_cache, clock.theme, clock.settings, assets)
       IN /\ clock' = [clock EXCEPT !._hand_image_cache = r.cache]
          /\ frame' = r.frame
    /\ RenderUnchanged

\* the handlers with no call of clear_hand_image_cache at all
ThemeChanged_NeverClears(changes, clear) ==
    LET theme == [k \in RenderKeys |->
                     IF k \in DOMAIN changes THEN changes[k] ELSE clock.theme[k]]
        changed(r) ==
           [clock |-> [clock EXCEPT !.theme = theme, !._hand_image_cache = r.cache],
            frame |-> r.frame]
    IN changed(Render("preview", clock._hand_image_cache, theme, clock.settings, assets))

\* _on_theme_property_changed and the handlers of the hand pickers: the
\* keys are set, then _regenerate_current_theme_preview draws the preview
\* of the current state; the cache is cleared before it (clear = "before":
\* on_choose_hand_theme_clicked), after it (clear = "after": the colour
\* handlers) or not at all (clear = "no": the pickers of one hand).
ThemeChanged(changes, clear) ==
    LET theme == [k \in RenderKeys |->
                     IF k \in DOMAIN changes THEN changes[k] ELSE clock.theme[k]]
        changed(r) ==
           [clock |-> [clock EXCEPT !.theme = theme,
                                    !._hand_image_cache =
                                        IF clear = "after" THEN NoCache ELSE r.cache],
            frame |-> r.frame]
    IN changed(Render("preview",
                      IF clear = "before" THEN NoCache ELSE clock._hand_image_cache,
                      theme, clock.settings, assets))

\* on_hands_color_changed: the colour is set, the preview drawn, the cache
\* cleared
on_hands_color_changed(color) ==
    /\ \E r \in {ThemeChanged([k \in {"hands_color"} |-> color], "after")} :
          clock' = r.clock /\ frame' = [r.frame EXCEPT !.by = "on_hands_color_changed"]
    /\ RenderUnchanged

\* on_choose_hand_theme_clicked: the picked set goes to all three hands
on_choose_hand_theme_clicked(selected) ==
    /\ \E r \in {ThemeChanged(
                  [k \in {SourceKey(h) : h \in HandTypes} \cup {NameKey(h) : h \in HandTypes} |->
                      IF \E h \in HandTypes : k = SourceKey(h)
                      THEN selected[1] ELSE selected[2]], "before")} :
          clock' = r.clock /\ frame' = [r.frame EXCEPT !.by = "on_choose_hand_theme_clicked"]
    /\ RenderUnchanged

\* on_choose_hand_image_clicked(hand_type)
on_choose_hand_image_clicked(hand_type, selected) ==
    /\ \E r \in {ThemeChanged(
                  [k \in {SourceKey(hand_type), NameKey(hand_type)} |->
                      IF k = SourceKey(hand_type) THEN selected[1] ELSE selected[2]], "no")} :
          clock' = r.clock /\ frame' = [r.frame EXCEPT !.by = "on_choose_hand_image_clicked"]
    /\ RenderUnchanged

\* on_clear_hand_image_clicked(hand_type)
on_clear_hand_image_clicked(hand_type) ==
    /\ \E r \in {ThemeChanged(
                  [k \in {SourceKey(hand_type), NameKey(hand_type)} |->
                      IF k = SourceKey(hand_type) THEN PyStr("none") ELSE None], "no")} :
          clock' = r.clock /\ frame' = [r.frame EXCEPT !.by = "on_clear_hand_image_clicked"]
    /\ RenderUnchanged

\* on_second_hand_color_changed: as on_hands_color_changed
on_second_hand_color_changed(color) ==
    /\ \E r \in {ThemeChanged([k \in {"second_hand_color"} |-> color], "after")} :
          clock' = r.clock /\ frame' = [r.frame EXCEPT !.by = "on_second_hand_color_changed"]
    /\ RenderUnchanged

\* on_clear_hand_theme_clicked: all three hands go back to 'none'; the
\* cache is not touched
on_clear_hand_theme_clicked ==
    /\ \E r \in {ThemeChanged(
                  [k \in {SourceKey(h) : h \in HandTypes} \cup {NameKey(h) : h \in HandTypes} |->
                      IF \E h \in HandTypes : k = SourceKey(h)
                      THEN PyStr("none") ELSE None], "no")} :
          clock' = r.clock /\ frame' = [r.frame EXCEPT !.by = "on_clear_hand_theme_clicked"]
    /\ RenderUnchanged

\* on_show_date_toggled, on_show_seconds_toggled: the setting is stored and
\* a redraw queued, which makes the frame on the screen a stale one
on_setting_toggled(key, value) ==
    /\ clock' = [clock EXCEPT !.settings[key] = value]
    /\ frame' = NoFrame
    /\ RenderUnchanged

\* _generate_theme_preview(theme_name): the named theme takes the place of
\* self.theme while its preview is drawn, and the theme that was there is
\* put back
_generate_theme_preview(temp_theme) ==
    /\ LET r == Render("preview", clock._hand_image_cache, temp_theme, clock.settings, assets)
       IN /\ clock' = [clock EXCEPT !._hand_image_cache = r.cache]
          /\ frame' = r.frame
    /\ RenderUnchanged

\* _apply_theme as the renderer sees it: self.theme is another theme, the
\* cache is left as it was, a redraw is queued
theme_replaced(new_theme) ==
    /\ clock' = [clock EXCEPT !.theme = new_theme]
    /\ frame' = NoFrame
    /\ RenderUnchanged

RenderNext ==
    \/ on_draw
    \/ \E color \in {Black, White} : on_hands_color_changed(color)
    \/ on_choose_hand_theme_clicked(<<PyStr("builtin"), PyStr("classic")>>)
    \/ \E h \in HandTypes : on_choose_hand_image_clicked(h, <<PyStr("builtin"), PyStr("classic")>>)
    \/ \E h \in HandTypes : on_clear_hand_image_clicked(h)
    \/ \E color \in {Red, Black} : on_second_hand_color_changed(color)
    \/ on_clear_hand_theme_clicked
    \/ \E key \in {"show_date_box", "show_second_hand"}, value \in {PyTrue, PyFalse} :
          on_setting_toggled(key, value)
    \/ \E t \in OtherThemes : _generate_theme_preview(t)
    \/ \E t \in OtherThemes : theme_replaced(t)

RenderSpec == RenderInit /\ [][RenderNext]_vars

-----------------------------------------------------------------------------
(* Claims about the renderer                                               *)

\* the ops of a frame that drew hand h
HandOps(f, h) == {i \in DOMAIN f.ops : f.ops[i].stage = h \o "_hand"}
ImageOps(f) == {i \in DOMAIN f.ops : f.ops[i].mode = "image"}

\* C14: an image hand whose (path, colour) pair is in the cache (was drawn
\* since the last clear) is drawn from the cache without a load or a
\* colourisation; with the same path and a colour the cache does not hold
\* under that path it misses, colourises once and leaves a new entry; and
\* every cache entry under (path, colour) is the surface of that path
\* coloured with that colour and the pivot of that path.
C14_HandImageCache ==
    /\ \A k \in DOMAIN clock._hand_image_cache :
          /\ clock._hand_image_cache[k].surface = [image |-> k[1], colour |-> k[2]]
          /\ clock._hand_image_cache[k].pivot = k[1]
    /\ \A i \in ImageOps(frame) :
          LET op == frame.ops[i]
          IN /\ op.key \in DOMAIN frame.cache0 =>
                  op.hit /\ op.loads = 0 /\ op.colourised = 0 /\ op.drawn
             /\ (/\ op.key \notin DOMAIN frame.cache0
                 /\ \E k \in DOMAIN frame.cache0 : k[1] = op.key[1]) =>
                  /\ ~op.hit /\ op.colourised = 1
                  /\ op.key \in DOMAIN frame.cache1
                  /\ op.surface = [image |-> op.key[1], colour |-> op.key[2]]

\* the hour hand's image was in the cache in black and was drawn in white
C14_Witness ==
    \E i \in ImageOps(frame) :
        /\ frame.ops[i].stage = "hour_hand"
        /\ frame.ops[i].key[2] = White
        /\ <<frame.ops[i].key[1], Black>> \in DOMAIN frame.cache0
        /\ frame.ops[i].colourised = 1
        /\ Cardinality(DOMAIN frame.cache1) > Cardinality(DOMAIN frame.cache0)

\* C15 (as stated): in every frame every hand is drawn by exactly one op,
\* in vector mode if and only if the hand's image source is 'none' and in
\* image mode otherwise.
C15_ModeBySource ==
    frame.kind # "none" =>
        \A h \in HandTypes :
            /\ Cardinality(HandOps(frame, h)) = 1
            /\ \A i \in HandOps(frame, h) :
                  frame.ops[i].mode =
                      IF frame.theme[SourceKey(h)] = PyStr("none") THEN "vector" ELSE "image"

\* no file of the hand's image set exists in any of the three places
NoImageFile(theme, h) ==
    \A i \in 1..3 :
        ~ImageExists(assets, HandImagePath(theme[SourceKey(h)][2], theme[NameKey(h)][2],
                                           Variants[i], h))

\* C15 (amended): in every frame every hand the frame draws (the second hand
\* only when seconds are shown) is drawn by exactly one op: in vector mode
\* if and only if the hand's image source is 'none', its image name is empty
\* or no file of that image exists, and in image mode otherwise; the mode
\* of a hand is a function of that hand's own source and name.
C15_ModeByResolvedImage ==
    frame.kind # "none" =>
        \A h \in HandTypes :
            /\ Cardinality(HandOps(frame, h)) =
                  IF h = "second" /\ ~Truthy(frame.settings["show_second_hand"])
                  THEN 0 ELSE 1
            /\ \A i \in HandOps(frame, h) :
                  frame.ops[i].mode =
                      IF \/ frame.theme[SourceKey(h)] = PyStr("none")
                         \/ ~Truthy(frame.theme[NameKey(h)])
                         \/ NoImageFile(frame.theme, h)
                      THEN "vector" ELSE "image"

\* a frame with the hour hand as an image, the minute hand as a vector
\* because its image has no file, and the second hand as a vector because
\* its source is 'none'
C15_Witness ==
    /\ frame.kind = "live"
    /\ \E i \in HandOps(frame, "hour") : frame.ops[i].mode = "image"
    /\ frame.theme[SourceKey("minute")] = PyStr("builtin")
    /\ Truthy(frame.theme[NameKey("minute")])
    /\ \E i \in HandOps(frame, "minute") : frame.ops[i].mode = "vector"
    /\ frame.theme[SourceKey("second")] = PyStr("none")
    /\ \E i \in HandOps(frame, "second") : frame.ops[i].mode = "vector"

\* the stages of frame f after its i-th
StagesAfter(f, i) == {f.ops[j].stage : j \in {k \in DOMAIN f.ops : k > i}}

\* C16: when the load or the drawing of an image hand raises, the same
\* frame draws that hand in vector mode, and the stages after the hand (the
\* later hands, the centre dot, the date box when it is shown) still run.
C16_ImageFailureFallsBackToVector ==
    \A i \in ImageOps(frame) :
        ~frame.ops[i].drawn =>
            /\ \E j \in DOMAIN frame.ops :
                  /\ frame.ops[j].stage = frame.ops[i].stage
                  /\ frame.ops[j].mode = "vector"
            /\ "center_dot" \in StagesAfter(frame, i)
            /\ (frame.ops[i].stage = "hour_hand") => "minute_hand" \in StagesAfter(frame, i)
            /\ (frame.ops[i].stage # "second_hand" /\ Truthy(frame.settings["show_second_hand"]))
                  => "second_hand" \in StagesAfter(frame, i)
            /\ (frame.kind = "live" /\ Truthy(frame.settings["show_date_box"]))
                  => "date_box" \in StagesAfter(frame, i)

\* C17: a preview, of the current theme or of another one, is the frame the
\* live view's routine draws for the same theme, settings and cache, less
\* the date box: it has no date box whatever the show-date setting is, and
\* every other stage as the live frame has it.
C17_PreviewIsLiveFrameWithoutDate ==
    frame.kind = "preview" =>
        /\ \A i \in DOMAIN frame.ops : frame.ops[i].stage # "date_box"
        /\ LET IsNotDateBox(op) == op.stage # "date_box"
               live == Render("live", frame.cache0, frame.theme, frame.settings, assets)
           IN /\ frame.ops = SelectSeq(live.frame.ops, IsNotDateBox)
              /\ frame.cache1 = live.cache

\* the preview of another theme was drawn while the date box is switched on
C17_Witness ==
    /\ frame.kind = "preview"
    /\ frame.theme \in OtherThemes /\ frame.theme # clock.theme
    /\ frame.settings["show_date_box"] = PyTrue
    /\ Len(frame.ops) >= 6

\* ------------------------------------------------------------------
\* Hand angles (dsclock.py: draw_hour_hand, draw_minute_hand,
\* draw_second_hand, _draw_hand_image).
\*
\* An angle is an integer number of tenths of a degree, the unit in which
\* every angle the code computes from whole hours, minutes and seconds is
\* exact: (hours + minutes / 60) * 30 - 90 degrees is
\* 300 * hours + 5 * minutes - 900 tenths, and (minutes + seconds / 60) * 6
\* - 90 degrees is 60 * minutes + seconds - 900 tenths.  The code computes
\* in binary floating point; the vector and the image branch apply the same
\* operations in the same order.
\* ------------------------------------------------------------------

\* datetime.now(): hour, minute and second of the wall clock
Hours == 0 .. 23
Minutes == 0 .. 59
Seconds == 0 .. 59

\* math.radians((hours + minutes / 60) * 30 - 90) in draw_hour_hand
draw_hour_hand_angle(hours, minutes) == 300 * hours + 5 * minutes - 900

\* the vector branch of draw_minute_hand
draw_minute_hand_angle(minutes, seconds, minute_hand_snap) ==
    IF Truthy(minute_hand_snap)
    THEN 60 * minutes - 900
    ELSE 60 * minutes + seconds - 900

\* math.radians(seconds * 6 - 90) in draw_second_hand
draw_second_hand_angle(seconds) == 60 * seconds - 900

\* the angle of _draw_hand_image with a minute branch that drops the seconds
\* whatever the snap setting is
_draw_hand_image_angle_DropsSeconds(hours, minutes, hand_type, seconds, minute_hand_snap) ==
    IF hand_type = "hour" THEN 300 * hours + 5 * minutes - 900
    ELSE IF hand_type = "minute" THEN 60 * minutes - 900
    ELSE 60 * seconds - 900

\* "Calculate angle based on hand type" in _draw_hand_image
_draw_hand_image_angle(hours, minutes, hand_type, seconds, minute_hand_snap) ==
    IF hand_type = "hour" THEN 300 * hours + 5 * minutes - 900
    ELSE IF hand_type = "minute"
         THEN IF Truthy(minute_hand_snap)
              THEN 60 * minutes - 900
              ELSE 60 * minutes + seconds - 900
    ELSE 60 * seconds - 900

\* the three hands of one frame as _draw_clock_face draws them at time now,
\* every hand in the given mode; the image calls pass 0 for the arguments
\* the hand does not use
HandAngles(mode, now, minute_hand_snap) ==
    LET hours == now.hour % 12
        minutes == now.minute
        seconds == now.second
    IN [mode |-> mode,
        hours |-> hours, minutes |-> minutes, seconds |-> seconds,
        snap |-> minute_hand_snap,
        hour |-> IF mode = "image"
                 THEN _draw_hand_image_angle(hours, minutes, "hour", 0, minute_hand_snap)
                 ELSE draw_hour_hand_angle(hours, minutes),
        minute |-> IF mode = "image"
                   THEN _draw_hand_image_angle(0, minutes, "minute", seconds, minute_hand_snap)
                   ELSE draw_minute_hand_angle(minutes, seconds, minute_hand_snap),
        second |-> IF mode = "image"
                   THEN _draw_hand_image_angle(0, 0, "second", seconds, minute_hand_snap)
                   ELSE draw_second_hand_angle(seconds)]

\* the clock at some time of day with some snap setting, before a frame
AngleInit ==
    /\ store = NoGui /\ fs = NoGui /\ last = NoGui /\ pc = "idle"
    /\ dialog = NoGui /\ assets = NoGui
    /\ \E hour \in Hours, minute \in Minutes, second \in Seconds,
          snap \in {PyTrue, PyFalse} :
          clock = [now |-> [hour |-> hour, minute |-> minute, second |-> second],
                   settings |-> [minute_hand_snap |-> snap]]
    /\ frame = NoFrame

\* a frame of a theme without hand images
draw_vector_hands ==
    /\ frame' = HandAngles("vector", clock.now, clock.settings.minute_hand_snap)
    /\ UNCHANGED <<store, fs, last, pc, clock, dialog, assets>>

\* a frame of a theme whose hands are images
draw_image_hands ==
    /\ frame' = HandAngles("image", clock.now, clock.settings.minute_hand_snap)
    /\ UNCHANGED <<store, fs, last, pc, clock, dialog, assets>>

AngleNext == draw_vector_hands \/ draw_image_hands

AngleSpec == AngleInit /\ [][AngleNext]_vars

\* C18: for every time and snap setting the hour hand is at
\* (hour + minute/60)*30 - 90 degrees, the minute hand at minute*6 - 90 with
\* snap-to-minute and at (minute + second/60)*6 - 90 without, the second
\* hand at second*6 - 90; and the image and the vector branch give the same
\* three angles for the same time and setting.
C18_HandAngles ==
    /\ frame # NoFrame =>
          /\ frame.hours \in 0 .. 11
          /\ frame.hour = 300 * frame.hours + 5 * frame.minutes - 900
          /\ frame.minute = IF frame.snap = PyTrue
                            THEN 60 * frame.minutes - 900
                            ELSE 60 * frame.minutes + frame.seconds - 900
          /\ frame.second = 60 * frame.seconds - 900
          /\ (frame.hours = 3 /\ frame.minutes = 0) => frame.hour = 0
          /\ (frame.minutes = 15 /\ frame.snap = PyTrue) => frame.minute = 0
    /\ LET image == HandAngles("image", clock.now, clock.settings.minute_hand_snap)
           vector == HandAngles("vector", clock.now, clock.settings.minute_hand_snap)
       IN /\ image.hour = vector.hour
          /\ image.minute = vector.minute
          /\ image.second = vector.second

\* an image frame at 15:00:30 without snap: hour hand at 0 degrees, minute
\* hand half a degree past 12 o'clock, second hand at 90 degrees
C18_Witness ==
    /\ frame # NoFrame
    /\ frame.mode = "image"
    /\ clock.now = [hour |-> 15, minute |-> 0, second |-> 30]
    /\ frame.snap = PyFalse
    /\ frame.hour = 0 /\ frame.minute = -870 /\ frame.second = 900

\* ------------------------------------------------------------------
\* Hour ticks and numerals (dsclock.py: draw_ticks_and_numbers,
\* _to_roman_numeral).  A frame is the sequence of the marks the routine
\* draws, in drawing order.
\* ------------------------------------------------------------------

\* str(number) for the numbers of a dial
str(number) ==
    CASE number = 0 -> "0" [] number = 1 -> "1" [] number = 2 -> "2"
      [] number = 3 -> "3" [] number = 4 -> "4" [] number = 5 -> "5"
      [] number = 6 -> "6" [] number = 7 -> "7" [] number = 8 -> "8"
      [] number = 9 -> "9" [] number = 10 -> "10" [] number = 11 -> "11"
      [] number = 12 -> "12"

roman_map ==
    [num \in 1 .. 12 |->
        CASE num = 1 -> "I" [] num = 2 -> "II" [] num = 3 -> "III"
          [] num = 4 -> "IV" [] num = 5 -> "V" [] num = 6 -> "VI"
          [] num = 7 -> "VII" [] num = 8 -> "VIII" [] num = 9 -> "IX"
          [] num = 10 -> "X" [] num = 11 -> "XI" [] num = 12 -> "XII"]

\* roman_map.get(num, str(num))
_to_roman_numeral(num) ==
    IF num \in DOMAIN roman_map THEN roman_map[num] ELSE str(num)

\* a numbering that leaves position 0 as it is
NumberAt_Zero(i) == i

\* number = 12 if i == 0 else i
NumberAt(i) == IF i = 0 THEN 12 ELSE i

\* the hour_tick_style values the three branches tell apart
TickStyles == {"round", "rectangular", "square"}

\* the theme switches draw_ticks_and_numbers reads
TickSwitches ==
    {"show_hour_ticks", "show_numbers", "show_minute_ticks",
     "use_roman_numerals", "show_cardinal_numbers_only"}

\* one pass of "for i in range(12)": the tick when ticks are shown, then
\* the numeral unless numerals are off or the cardinal filter skips it
HourMarks(theme, i) ==
    LET number == NumberAt(i)
        tick == IF Truthy(theme["show_hour_ticks"])
                THEN <<[mark |-> "hour_tick", i |-> i,
                        style |-> IF theme["hour_tick_style"] = PyStr("round") THEN "round"
                                  ELSE IF theme["hour_tick_style"] = PyStr("rectangular")
                                       THEN "rectangular" ELSE "square",
                        text |-> ""]>>
                ELSE <<>>
        numeral == IF ~Truthy(theme["show_numbers"]) THEN <<>>
                   ELSE IF Truthy(theme["show_cardinal_numbers_only"])
                           /\ number \notin {12, 3, 6, 9}
                        THEN <<>>
                   ELSE <<[mark |-> "numeral", i |-> i, style |-> "",
                           text |-> IF Truthy(theme["use_roman_numerals"])
                                    THEN _to_roman_numeral(number)
                                    ELSE str(number)]>>
    IN tick \o numeral

\* passes i .. 11 of the loop over the hour positions
RECURSIVE HourLoop(_, _)
HourLoop(theme, i) ==
    IF i > 11 THEN <<>> ELSE HourMarks(theme, i) \o HourLoop(theme, i + 1)

\* "for i in range(60): if i % 5 != 0", from position i on
RECURSIVE MinuteLoop(_, _)
MinuteLoop(theme, i) ==
    IF i > 59 THEN <<>>
    ELSE (IF i % 5 # 0
          THEN <<[mark |-> "minute_tick", i |-> i, style |-> "", text |-> ""]>>
          ELSE <<>>) \o MinuteLoop(theme, i + 1)

\* the marks of one call of draw_ticks_and_numbers
TicksAndNumbers(theme) ==
    HourLoop(theme, 0)
      \o (IF Truthy(theme["show_minute_ticks"]) THEN MinuteLoop(theme, 0) ELSE <<>>)

\* the default theme's switches and tick style, nothing drawn yet
TickInit ==
    /\ store = NoGui /\ fs = NoGui /\ last = NoGui /\ pc = "idle"
    /\ dialog = NoGui /\ assets = NoGui
    /\ clock = [theme |-> [k \in TickSwitches \cup {"hour_tick_style"} |->
                   IF k = "hour_tick_style" THEN PyStr("square")
                   ELSE IF k \in {"use_roman_numerals", "show_cardinal_numbers_only"}
                        THEN PyFalse ELSE PyTrue]]
    /\ frame = NoFrame

draw_ticks_and_numbers ==
    /\ frame' = [theme |-> clock.theme, marks |-> TicksAndNumbers(clock.theme)]
    /\ UNCHANGED <<store, fs, last, pc, clock, dialog, assets>>

\* the switches of the Numbers and Ticks pages
on_tick_switch_toggled(key, value) ==
    /\ clock' = [clock EXCEPT !.theme[key] = value]
    /\ UNCHANGED <<store, fs, last, pc, dialog, frame, assets>>

on_hour_tick_style_changed(style) ==
    /\ clock' = [clock EXCEPT !.theme["hour_tick_style"] = PyStr(style)]
    /\ UNCHANGED <<store, fs, last, pc, dialog, frame, assets>>

TickNext ==
    \/ draw_ticks_and_numbers
    \/ \E key \in TickSwitches, value \in {PyTrue, PyFalse} :
          on_tick_switch_toggled(key, value)
    \/ \E style \in TickStyles : on_hour_tick_style_changed(style)

TickSpec == TickInit /\ [][TickNext]_vars

\* the marks of kind mark in frame f
MarksOf(f, mark) == {n \in DOMAIN f.marks : f.marks[n].mark = mark}

\* C19: with numerals shown, the numeral at hour position i reads 12 if
\* i = 0, else i (in Arabic, or that number in Roman); with cardinal-only,
\* numerals are drawn only where that value is 12, 3, 6 or 9; with Roman
\* numerals as well, the texts drawn are exactly XII, III, VI and IX, once
\* each; and when hour ticks are shown all twelve are drawn, one per hour
\* position, whatever the cardinal-only switch says.
C19_Numerals ==
    frame # NoFrame =>
        LET numerals == MarksOf(frame, "numeral")
            ticks == MarksOf(frame, "hour_tick")
            cardinal == Truthy(frame.theme["show_cardinal_numbers_only"])
            roman == Truthy(frame.theme["use_roman_numerals"])
            value(n) == IF frame.marks[n].i = 0 THEN 12 ELSE frame.marks[n].i
        IN /\ Truthy(frame.theme["show_numbers"]) =>
                /\ \A n \in numerals :
                      /\ frame.marks[n].i \in 0 .. 11
                      /\ frame.marks[n].text =
                            IF roman THEN roman_map[value(n)] ELSE str(value(n))
                /\ \A n, m \in numerals : frame.marks[n].i = frame.marks[m].i => n = m
                /\ cardinal => {value(n) : n \in numerals} = {12, 3, 6, 9}
                /\ ~cardinal => {frame.marks[n].i : n \in numerals} = 0 .. 11
                /\ (cardinal /\ roman) =>
                      /\ {frame.marks[n].text : n \in numerals} = {"XII", "III", "VI", "IX"}
                      /\ Cardinality(numerals) = 4
           /\ Truthy(frame.theme["show_hour_ticks"]) =>
                /\ {frame.marks[n].i : n \in ticks} = 0 .. 11
                /\ Cardinality(ticks) = 12

\* a dial with hour ticks and the four cardinal numerals in Roman
C19_Witness ==
    /\ frame # NoFrame
    /\ frame.theme["show_numbers"] = PyTrue
    /\ frame.theme["show_cardinal_numbers_only"] = PyTrue
    /\ frame.theme["use_roman_numerals"] = PyTrue
    /\ frame.theme["show_hour_ticks"] = PyTrue
    /\ Cardinality(MarksOf(frame, "numeral")) = 4
    /\ Cardinality(MarksOf(frame, "hour_tick")) = 12

\* ------------------------------------------------------------------
\* Colourising a hand image (dsclock.py: _draw_hand_image on a cache miss;
\* dialogs.py: _recolor_hand_images).
\*
\* A pixel is [r, g, b, a] with 8-bit channels, colour not premultiplied; an
\* image is a sequence of pixels in scan order.  A component of a theme
\* colour, a float in 0.0 .. 1.0, is an integer number of thousandths.
\* ------------------------------------------------------------------

\* the longest image of the model, in pixels
MaxPixels == 3

Pixel(r, g, b, a) == [r |-> r, g |-> g, b |-> b, a |-> a]

\* the pixels of a hand image: opaque black, an anti-aliased black edge,
\* transparent, the red pivot marker, and an opaque grey that a hand set
\* which was not preprocessed can hold
SourcePixels ==
    {Pixel(0, 0, 0, 255), Pixel(0, 0, 0, 128), Pixel(0, 0, 0, 0),
     Pixel(255, 0, 0, 255), Pixel(90, 90, 90, 255)}

HandImages == UNION {[1 .. n -> SourcePixels] : n \in 1 .. MaxPixels}

\* hand colours: black, white and a mixed colour with a component of 0.5
HandColours == {<<0, 0, 0>>, <<1000, 1000, 1000>>, <<500, 0, 1000>>}

\* the 8-bit channel cairo paints for a colour component given to
\* set_source_rgba: the component as a 16-bit value d * 65535 + 0.5, of
\* which an ARGB32 surface keeps the high byte
SourceByte(d) == ((d * 65535 + 500) \div 1000) \div 256

\* int(target_color[k] * 255)
TargetByte(d) == (d * 255) \div 1000

\* _draw_hand_image, cache miss: paint the pixbuf, then paint the opaque
\* hand colour with OPERATOR_IN, which keeps the colour of the source (the
\* hand colour) and multiplies its alpha, 1.0, by the alpha of the
\* destination (the image); a pixel of alpha 0 holds no colour
ColouredSurface(image, hand_color) ==
    [n \in DOMAIN image |->
        IF image[n].a = 0 THEN Pixel(0, 0, 0, 0)
        ELSE Pixel(SourceByte(hand_color[1]), SourceByte(hand_color[2]),
                   SourceByte(hand_color[3]), image[n].a)]

\* red_pixel_pos of _recolor_hand_images: the first pixel with r == 255,
\* g == 0 and b == 0, whatever its alpha; 0 stands for None
RedPixelPos(image) ==
    LET red == {n \in DOMAIN image :
                   image[n].r = 255 /\ image[n].g = 0 /\ image[n].b = 0}
    IN IF red = {} THEN 0 ELSE CHOOSE n \in red : \A m \in red : n <= m

\* the recolouring loop of _recolor_hand_images
RecoloredImage(image, target_color) ==
    [n \in DOMAIN image |->
        IF n = RedPixelPos(image) THEN image[n]
        ELSE IF image[n].a = 255 /\ image[n].r = 0 /\ image[n].g = 0 /\ image[n].b = 0
             THEN Pixel(TargetByte(target_color[1]), TargetByte(target_color[2]),
                        TargetByte(target_color[3]), image[n].a)
        ELSE image[n]]

\* a hand image on disk and a hand colour in the theme, nothing coloured yet
ColourInit ==
    /\ store = NoGui /\ fs = NoGui /\ last = NoGui /\ pc = "idle"
    /\ dialog = NoGui
    /\ assets \in HandImages
    /\ \E hand_color \in HandColours : clock = [hands_color |-> hand_color]
    /\ frame = NoFrame

\* the renderer draws the hand with no cache entry for its colour
colourise_on_miss ==
    /\ frame' = [by |-> "_draw_hand_image", source |-> assets,
                 color |-> clock.hands_color,
                 surface |-> ColouredSurface(assets, clock.hands_color)]
    /\ UNCHANGED <<store, fs, last, pc, clock, dialog, assets>>

_recolor_hand_images ==
    /\ frame' = [by |-> "_recolor_hand_images", source |-> assets,
                 color |-> clock.hands_color,
                 surface |-> RecoloredImage(assets, clock.hands_color)]
    /\ UNCHANGED <<store, fs, last, pc, clock, dialog, assets>>

\* the colour button of the Hands page
hands_color_set(color) ==
    /\ clock' = [clock EXCEPT !.hands_color = color]
    /\ UNCHANGED <<store, fs, last, pc, dialog, frame, assets>>

ColourNext ==
    \/ colourise_on_miss
    \/ _recolor_hand_images
    \/ \E color \in HandColours : hands_color_set(color)

ColourSpec == ColourInit /\ [][ColourNext]_vars

\* channel byte is the 8-bit value of colour component d, to within one step
IsByteOf(byte, d) ==
    /\ byte * 1000 > d * 255 - 1000
    /\ byte * 1000 < d * 255 + 1000

\* pixel p has colour c
HasColour(p, c) ==
    /\ IsByteOf(p.r, c[1]) /\ IsByteOf(p.g, c[2]) /\ IsByteOf(p.b, c[3])

\* C20: colourising with colour c keeps every pixel's alpha; a fully opaque
\* source pixel comes out with colour c, a fully transparent one stays
\* fully transparent, and a partially transparent one keeps the colour it
\* had instead of taking c.
C20_ColouriseKeepsAlpha ==
    frame # NoFrame =>
        /\ DOMAIN frame.surface = DOMAIN frame.source
        /\ \A n \in DOMAIN frame.source :
              LET src == frame.source[n]
                  out == frame.surface[n]
              IN /\ out.a = src.a
                 /\ src.a = 255 => HasColour(out, frame.color)
                 /\ src.a = 0 => out.a = 0
                 /\ (src.a > 0 /\ src.a < 255) =>
                       (out.r = src.r /\ out.g = src.g /\ out.b = src.b)

-----------------------------------------------------------------------------
(* The cache and the handlers that change a hand's look                    *)

\* the theme keys that decide which surface a hand is drawn from
HandLookKeys ==
    {SourceKey(h) : h \in HandTypes} \cup {NameKey(h) : h \in HandTypes}
    \cup {"hands_color", "second_hand_color"}

KeepsEntries(a, b) == \A k \in DOMAIN a : k \in DOMAIN b /\ b[k] = a[k]

MaxImportIndex == 1

TextureBase == "wood"
TextureExt == ".png"

\* base, then name_1.ext, name_2.ext, ... as _import_texture_file forms them
ImportName(i) ==
    IF i = 0 THEN TextureBase \o TextureExt
    ELSE TextureBase \o "_" \o str(i) \o TextureExt

UserTextures == {<<"user_textures", ImportName(i)>> : i \in 0 .. MaxImportIndex}
TexturePaths == {<<"builtin_textures", ImportName(0)>>} \cup UserTextures

\* resolve_texture_path(source, name)
resolve_texture_path(source, name) ==
    IF ~Truthy(name) THEN None
    ELSE IF source = PyStr("user") THEN <<"user_textures", name[2]>>
    ELSE <<"builtin_textures", name[2]>>

\* no entry under a path of _texture_surface_cache
Unset == <<"unset">>

\* _get_texture_surface(path): the entry of the cache if there is one, be it
\* None; else None is stored for a file that does not exist or does not
\* load, and the surface for one that loads
_get_texture_surface(tcache, files, path) ==
    IF path = None THEN [tcache |-> tcache, surface |-> None]
    ELSE IF tcache[path] # Unset
    THEN [tcache |-> tcache, surface |-> tcache[path]]
    ELSE IF files[path] # "image"
    THEN [tcache |-> [tcache EXCEPT ![path] = None], surface |-> None]
    ELSE [tcache |-> [tcache EXCEPT ![path] = <<"surface", path>>],
          surface |-> <<"surface", path>>]

\* one drawing call, in the shape of the marks of draw_ticks_and_numbers
Op(stage, i) == [mark |-> stage, i |-> i, style |-> "", text |-> ""]

\* the calls of draw_ticks_and_numbers with the minute ticks drawn before
\* the loop over the hour positions
TickCalls_MinuteTicksFirst(theme) ==
    (IF Truthy(theme["show_minute_ticks"]) THEN MinuteLoop(theme, 0) ELSE <<>>)
      \o HourLoop(theme, 0)

\* the calls of draw_ticks_and_numbers
TickCalls(theme) == TicksAndNumbers(theme)

\* _draw_clock_face: the texture cache it leaves and its drawing calls
FaceCalls(tcache, theme, files, show_date, show_seconds) ==
    LET wanted == Truthy(theme["enable_face_texture"]) /\ Truthy(theme["face_texture_name"])
        face_path == resolve_texture_path(theme["face_texture_source"],
                                          theme["face_texture_name"])
        face == IF wanted THEN _get_texture_surface(tcache, files, face_path)
                ELSE [tcache |-> tcache, surface |-> None]
        \* the date box asks for the same path again
        box == IF wanted /\ Truthy(show_date)
               THEN _get_texture_surface(face.tcache, files, face_path)
               ELSE face
    IN [tcache |-> box.tcache,
        ops |-> (IF Truthy(theme["enable_face_color"]) THEN <<Op("face_color", 0)>> ELSE <<>>)
                \o (IF face.surface # None THEN <<Op("face_texture", 0)>> ELSE <<>>)
                \o <<Op("rim", 0)>>
                \o TickCalls(theme)
                \o <<Op("hour_hand", 0), Op("minute_hand", 0)>>
                \o (IF Truthy(show_seconds) THEN <<Op("second_hand", 0)>> ELSE <<>>)
                \o <<Op("center_dot", 0)>>
                \o (IF Truthy(show_date) THEN <<Op("date_box", 0)>> ELSE <<>>)]

\* a frame of the face: what was drawn, from which theme, settings and
\* files, with which texture cache before it.  The variable frame holds the
\* frame the last step drew, and NoFrame after a step that drew none.
FaceFrame(kind, c, files, show_date) ==
    LET r == FaceCalls(c._texture_surface_cache, c.theme, files, show_date,
                       c.settings["show_second_hand"])
    IN [clock |-> [c EXCEPT !._texture_surface_cache = r.tcache],
        frame |-> [kind |-> kind, theme |-> c.theme, settings |-> c.settings,
                   files |-> files, tcache0 |-> c._texture_surface_cache,
                   ops |-> r.ops]]

FaceKeys ==
    TickSwitches \cup {"hour_tick_style", "enable_face_color", "enable_face_texture",
                       "face_texture_source", "face_texture_name"}

\* a theme as its file gives it: a texture named in it, the dial with all
\* its marks
FaceTheme(source) ==
    [k \in FaceKeys |->
        CASE k = "hour_tick_style" -> PyStr("square")
          [] k = "face_texture_source" -> PyStr(source)
          [] k = "face_texture_name" -> PyStr(ImportName(0))
          [] k = "use_roman_numerals" -> PyFalse
          [] k = "show_cardinal_numbers_only" -> PyFalse
          [] OTHER -> PyTrue]

\* the clock after __init__: the theme is loaded, the texture cache is empty;
\* the bundled texture is there, the user's one is there, is there but does
\* not load, or is not there
FaceInit ==
    /\ store = NoGui /\ fs = NoGui /\ last = NoGui /\ pc = "idle" /\ dialog = NoGui
    /\ \E user \in {"image", "corrupt", "absent"} :
          assets = [path \in TexturePaths |->
                       IF path[1] = "builtin_textures" THEN "image"
                       ELSE IF path[2] = ImportName(0) THEN user ELSE "absent"]
    /\ \E source \in {"user", "builtin"} :
          clock = [theme |-> FaceTheme(source),
                   settings |-> [show_date_box |-> PyTrue, show_second_hand |-> PyTrue],
                   _texture_surface_cache |-> [path \in TexturePaths |-> Unset]]
    /\ frame = NoFrame

\* on_draw, for the face and its texture
on_draw_face ==
    /\ LET r == FaceFrame("live", clock, assets, clock.settings["show_date_box"])
       IN clock' = r.clock /\ frame' = r.frame
    /\ RenderUnchanged

\* on_enable_texture_toggled, on_enable_color_toggled: the property is set
\* and the preview of the current state drawn
on_enable_toggled(key, value) ==
    /\ LET r == FaceFrame("preview", [clock EXCEPT !.theme[key] = value], assets, PyFalse)
       IN clock' = r.clock /\ frame' = r.frame
    /\ RenderUnchanged

\* on_choose_face_texture_clicked: the picker offers the files that are in
\* the two directories
on_choose_face_texture_clicked(path) ==
    /\ assets[path] # "absent"
    /\ LET source == IF path[1] = "user_textures" THEN "user" ELSE "builtin"
           r == FaceFrame("preview",
                          [clock EXCEPT !.theme["face_texture_source"] = PyStr(source),
                                        !.theme["face_texture_name"] = PyStr(path[2])],
                          assets, PyFalse)
       IN clock' = r.clock /\ frame' = r.frame
    /\ RenderUnchanged

\* the first of base, name_1.ext, name_2.ext, ... that is not in the user's
\* directory: the destination _import_texture_file settles on
RECURSIVE FreeTextureIndex(_, _)
FreeTextureIndex(files, i) ==
    IF files[<<"user_textures", ImportName(i)>>] = "absent" THEN i
    ELSE FreeTextureIndex(files, i + 1)

\* _import_texture_file: the chosen file is copied to the free name and the
\* cache entry of that path dropped
_import_texture_file(content) ==
    /\ \E path \in UserTextures : assets[path] = "absent"
    /\ LET dest == <<"user_textures", ImportName(FreeTextureIndex(assets, 0))>>
       IN /\ assets' = [assets EXCEPT ![dest] = content]
          /\ clock' = [clock EXCEPT !._texture_surface_cache[dest] = Unset]
    /\ frame' = NoFrame
    /\ UNCHANGED <<store, fs, last, pc, dialog>>

\* the user puts a file into the textures directory with a file manager
texture_file_appears(path, content) ==
    /\ assets[path] = "absent"
    /\ assets' = [assets EXCEPT ![path] = content]
    /\ frame' = NoFrame
    /\ UNCHANGED <<store, fs, last, pc, clock, dialog>>

FaceNext ==
    \/ on_draw_face
    \/ \E key \in {"enable_face_texture", "enable_face_color"}, value \in {PyTrue, PyFalse} :
          on_enable_toggled(key, value)
    \/ \E path \in TexturePaths : on_choose_face_texture_clicked(path)
    \/ _import_texture_file("image")
    \/ \E path \in UserTextures : texture_file_appears(path, "image")
    \/ \E key \in {"show_date_box", "show_second_hand"}, value \in {PyTrue, PyFalse} :
          on_setting_toggled(key, value)

FaceSpec == FaceInit /\ [][FaceNext]_vars

-----------------------------------------------------------------------------
(* Claims about the face pipeline                                          *)

\* the place of a drawing call in the order of stages as the pipeline is
\* described: ticks of both rings, then numerals
StageRank(stage) ==
    CASE stage = "face_color" -> 1 [] stage = "face_texture" -> 2
      [] stage = "rim" -> 3
      [] stage \in {"hour_tick", "minute_tick"} -> 4
      [] stage = "numeral" -> 5
      [] stage = "hour_hand" -> 6 [] stage = "minute_hand" -> 7
      [] stage = "second_hand" -> 8 [] stage = "center_dot" -> 9
      [] stage = "date_box" -> 10

\* the place of a drawing call in the order the code has: the marks of the
\* hour ring (ticks and numerals), then the minute ticks
LoopRank(stage) ==
    CASE stage = "face_color" -> 1 [] stage = "face_texture" -> 2
      [] stage = "rim" -> 3
      [] stage \in {"hour_tick", "numeral"} -> 4
      [] stage = "minute_tick" -> 5
      [] stage = "hour_hand" -> 6 [] stage = "minute_hand" -> 7
      [] stage = "second_hand" -> 8 [] stage = "center_dot" -> 9
      [] stage = "date_box" -> 10

\* what every frame has whatever the order inside the dial is: rim, both
\* hands and centre dot once each, the second hand if and only if seconds
\* are shown, the date box if and only if the frame was asked for one
StagesPresent(f) ==
    LET n(stage) == Cardinality({i \in DOMAIN f.ops : f.ops[i].mark = stage})
    IN /\ n("rim") = 1 /\ n("hour_hand") = 1 /\ n("minute_hand") = 1
       /\ n("center_dot") = 1
       /\ n("second_hand") = IF Truthy(f.settings["show_second_hand"]) THEN 1 ELSE 0
       /\ n("date_box") = IF f.kind = "live" /\ Truthy(f.settings["show_date_box"])
                          THEN 1 ELSE 0

\* C22 (as stated): in every frame the calls come in the order face fill,
\* face texture, rim, hour and minute ticks, numerals, hour hand, minute
\* hand, second hand (only with seconds shown), centre dot, date box (only
\* with the date shown), no call of a later stage before one of an earlier
\* (each call is compared with the next one, the order being transitive).
C22_StageOrder ==
    frame # NoFrame =>
        /\ StagesPresent(frame)
        /\ \A i \in 1 .. Len(frame.ops) - 1 :
              StageRank(frame.ops[i].mark) <= StageRank(frame.ops[i + 1].mark)

\* C22 (amended): the same order, but with the dial drawn as the loop draws
\* it: for each hour position in turn its tick and then its numeral, and the
\* minute ticks after the last numeral.
C22_StageOrderWithHourLoop ==
    frame # NoFrame =>
        /\ StagesPresent(frame)
        /\ \A i \in 1 .. Len(frame.ops) - 1 :
              LET a == frame.ops[i]
                  b == frame.ops[i + 1]
              IN /\ LoopRank(a.mark) <= LoopRank(b.mark)
                 /\ (LoopRank(a.mark) = 4 /\ LoopRank(b.mark) = 4) =>
                       \/ a.i < b.i
                       \/ a.i = b.i /\ a.mark = "hour_tick" /\ b.mark = "numeral"

\* a live frame with every stage: face fill, texture, rim, the full dial,
\* three hands, centre dot and date box
C22_Witness ==
    /\ frame # NoFrame /\ frame.kind = "live"
    /\ \A stage \in {"face_color", "face_texture", "rim", "hour_tick", "numeral",
                     "minute_tick", "hour_hand", "minute_hand", "second_hand",
                     "center_dot", "date_box"} :
          \E i \in DOMAIN frame.ops : frame.ops[i].mark = stage

\* C23: a frame whose texture does not resolve or load has no texture call
\* and all its other stages; and a frame drawn when the file of the wanted
\* texture is a loadable image at its path has the texture call, whatever
\* earlier frames found at that path.
C23_TextureRetriedEveryFrame ==
    (frame # NoFrame /\ Truthy(frame.theme["enable_face_texture"])
       /\ Truthy(frame.theme["face_texture_name"])) =>
        LET path == resolve_texture_path(frame.theme["face_texture_source"],
                                         frame.theme["face_texture_name"])
            textured == \E i \in DOMAIN frame.ops : frame.ops[i].mark = "face_texture"
        IN /\ StagesPresent(frame)
           /\ frame.files[path] # "image" => ~textured
           /\ frame.files[path] = "image" => textured

-----------------------------------------------------------------------------
(* The theme grid of the settings dialog (dialogs.py) and its previews.    *)
(*                                                                         *)
(* Every handler is one step here, run to its end or to the statement that *)
(* raises, with the calls DialogSpec leaves out: _populate_themes, the     *)
(* preview files and in_memory_preview_pixbuf.  clock is the AnalogClock   *)
(* (theme, settings); assets is the grid: preview says of every theme what *)
(* its preview file shows (NoPreview: no file), in_memory_preview_pixbuf   *)
(* is the dialog's field; last says whether an exception ended the handler *)
(* that ran last.  A preview shows the face colour it was drawn            *)
(* with.  Saves of themes and settings succeed in these behaviours; the    *)
(* write of a preview that _generate_theme_preview makes may fail.         *)

NoPreview == <<"nopreview">>

\* what cairo's write_to_png does: "ok", or "write_fails" (IOError)
PreviewIOs == {"ok", "write_fails"}

\* the name the user types in the Save As and Duplicate dialogs
GridNames == {"t2"}

\* the answers to a prompt that is shown only if asked holds ("NONE": the
\* prompt is not shown)
Answers(asked, buttons) == IF asked THEN buttons ELSE {"NONE"}

\* _draw_clock_face raises when background_color is no sequence of numbers
\* (a theme file may hold any JSON value under the key, load keeps it)
DrawRaises(props) == props["background_color"][1] \notin {"tuple", "list"}

\* the picture _draw_clock_face leaves on the 200x200 surface
LookOf(props) ==
    LET c == props["background_color"] IN <<"png", c[2], c[3], c[4]>>

\* _get_theme_preview_path: one file per theme name (default_preview.png
\* for 'default', <name>.png otherwise)
_get_theme_preview_path(theme_name) == theme_name

\* _generate_theme_preview(theme_name): the theme is loaded into a new
\* object, put in place of self.parent_clock.theme, drawn, the saved
\* reference put back, the surface written.  No try block: a statement that
\* raises ends the call where it is.
_generate_theme_preview_call(g, theme_name, pio) ==
    LET temp_theme == Theme_load(Theme_init("face", theme_name, ThemesDir), g.fs)
    IN IF temp_theme.raised
       THEN [g EXCEPT !.raised = TRUE]
       ELSE IF DrawRaises(temp_theme.store.props)
       THEN [g EXCEPT !.clock.theme = temp_theme.store, !.raised = TRUE]
       ELSE IF pio = "write_fails"
       THEN [g EXCEPT !.raised = TRUE]
       ELSE [g EXCEPT !.grid.preview[_get_theme_preview_path(theme_name)] =
                         LookOf(temp_theme.store.props)]

\* _add_theme_item: a theme without a preview file gets one generated
_add_theme_item(g, theme_name, pio) ==
    IF g.grid.preview[_get_theme_preview_path(theme_name)] # NoPreview
    THEN g
    ELSE _generate_theme_preview_call(g, theme_name, pio)

\* Theme.list_available_themes: 'default' and every *.json of the themes
\* directory, sorted
list_available_themes(files) ==
    SelectSeq(<<"default", "t1", "t2">>,
              LAMBDA n : n = "default" \/ Exists(files, ThemePath(ThemesDir, n)))

RECURSIVE AddThemeItems(_, _, _)
AddThemeItems(g, names, pio) ==
    IF names = <<>> \/ g.raised
    THEN g
    ELSE AddThemeItems(_add_theme_item(g, Head(names), pio), Tail(names), pio)

\* _populate_themes
_populate_themes(g, pio) == AddThemeItems(g, list_available_themes(g.fs), pio)

\* _regenerate_current_theme_preview: the live theme drawn into
\* in_memory_preview_pixbuf
_regenerate_current_theme_preview(g) ==
    IF DrawRaises(g.clock.theme.props)
    THEN [g EXCEPT !.raised = TRUE]
    ELSE [g EXCEPT !.grid.in_memory_preview_pixbuf = LookOf(g.clock.theme.props)]

\* _save_in_memory_preview_to_disk: the pixbuf, if there is one, goes to the
\* preview file of the theme that is active at the call
_save_in_memory_preview_to_disk(g) ==
    IF g.grid.in_memory_preview_pixbuf # None
    THEN [g EXCEPT !.grid.preview[_get_theme_preview_path(g.clock.theme.name)] =
                       g.grid.in_memory_preview_pixbuf,
                   !.grid.in_memory_preview_pixbuf = None]
    ELSE g

\* settings.set('active_theme_name', theme_name); settings.save()
GridSetActive(g, theme_name) ==
    LET r == SetActiveTheme(g.clock, g.fs, theme_name, "ok")
    IN [g EXCEPT !.clock = r.clock, !.fs = r.fs]

\* _apply_theme(theme_name) as one call: the new theme loaded and assigned,
\* the grid repopulated, the pixbuf dropped, then the settings updated
_apply_theme_call(g, theme_name, pio) ==
    LET new_theme == Theme_load(Theme_init("face", theme_name, ThemesDir), g.fs)
        populated == _populate_themes([g EXCEPT !.clock.theme = new_theme.store], pio)
    IN IF new_theme.raised THEN [g EXCEPT !.raised = TRUE]
       ELSE IF populated.raised THEN populated
       ELSE GridSetActive([populated EXCEPT !.grid.in_memory_preview_pixbuf = None],
                          theme_name)

\* on_save_theme_as_clicked as one call
on_save_theme_as_clicked_call(g, theme_name, response, pio) ==
    IF response = "OK" /\ theme_name # "" /\ theme_name # "default"
    THEN LET new_theme == Theme_duplicate(g.clock.theme, theme_name).ret
             saved == _save_in_memory_preview_to_disk(
                          [g EXCEPT !.fs = save(new_theme, g.fs, "ok").fs])
             loaded == Theme_load(Theme_init("face", theme_name, ThemesDir), saved.fs)
         IN IF loaded.raised
            THEN [saved EXCEPT !.clock.theme = loaded.store, !.raised = TRUE]
            ELSE _populate_themes(
                     GridSetActive([saved EXCEPT !.clock.theme = loaded.store],
                                   theme_name), pio)
    ELSE g

\* self.parent_clock.theme.save(); self.parent_clock.settings.save()
GridSaveBoth(g) ==
    LET t == save(g.clock.theme, g.fs, "ok")
        st == save(g.clock.settings, t.fs, "ok")
    IN [g EXCEPT !.clock.theme = t.store, !.clock.settings = st.store, !.fs = st.fs]

\* _save_theme as one call
_save_theme_call(g, theme_name, response, pio) ==
    LET regenerated == _regenerate_current_theme_preview(g)
        previewed == IF ~g.clock.theme.dirty THEN g
                     ELSE IF regenerated.raised THEN regenerated
                     ELSE _save_in_memory_preview_to_disk(regenerated)
    IN IF previewed.raised THEN previewed
       ELSE IF previewed.clock.theme.name = "default"
       THEN on_save_theme_as_clicked_call(previewed, theme_name, response, pio)
       ELSE GridSaveBoth(previewed)

\* on_theme_activated as one call
on_theme_activated_call(g, theme_name, response, save_as, save_as_response, pio) ==
    IF response \in {"NONE", "NO"}
    THEN _apply_theme_call(g, theme_name, pio)
    ELSE IF response = "CANCEL"
    THEN g
    ELSE IF g.clock.theme.name = "default"
    THEN LET saved == on_save_theme_as_clicked_call(g, save_as, save_as_response, pio)
         IN IF saved.raised \/ saved.clock.theme.dirty
            THEN saved
            ELSE _apply_theme_call(saved, theme_name, pio)
    ELSE _apply_theme_call(_save_in_memory_preview_to_disk(GridSaveBoth(g)),
                           theme_name, pio)

\* on_duplicate_theme_clicked as one call, the name given and OK pressed
on_duplicate_theme_clicked_call(g, new_name, pio) ==
    LET new_theme == save(Theme_duplicate(g.clock.theme, new_name).ret, g.fs, "ok")
    IN _populate_themes(
           GridSetActive([g EXCEPT !.clock.theme = new_theme.store, !.fs = new_theme.fs],
                         new_name), pio)

\* on_delete_theme_clicked as one call, Yes pressed: the theme file and the
\* preview file are removed; what the rest raises is caught (the handler
\* shows "Failed to delete theme" and returns)
on_delete_theme_clicked_call(g, theme_name, pio) ==
    LET removed == [g EXCEPT !.fs[ThemePath(ThemesDir, theme_name)] = Absent,
                             !.grid.preview[_get_theme_preview_path(theme_name)] = NoPreview]
        rest == IF g.clock.theme.name = theme_name
                THEN _apply_theme_call(removed, "default", pio)
                ELSE _populate_themes(removed, pio)
    IN [rest EXCEPT !.raised = FALSE]

\* _handle_close as one call
_handle_close_call(g, response, theme_name, save_as_response, pio) ==
    IF response \in {"NONE", "CANCEL"}
    THEN g
    ELSE IF response = "NO"
    THEN LET t == Theme_load(g.clock.theme, g.fs)
         IN [g EXCEPT !.clock.theme = t.store, !.raised = t.raised]
    ELSE _save_theme_call(g, theme_name, save_as_response, pio)

\* the program state the handlers work on
GridState == [clock |-> clock, fs |-> fs, grid |-> assets, raised |-> FALSE]

\* the state a handler leaves
GridStep(g) ==
    /\ clock' = g.clock
    /\ fs' = g.fs
    /\ assets' = g.grid
    /\ last' = [raised |-> g.raised]
    /\ UNCHANGED <<store, pc, dialog, frame>>

\* The theme files a themes directory holds when the program starts: none,
\* a saved theme, a theme whose colour is a string.
GridThemeFiles ==
    {Absent}
    \cup {Object([k \in AllKeys("face") |->
                    IF k = "background_color" THEN v ELSE Missing])
            : v \in {JsonRoundTrip(Black), PyStr("red")}}

\* what the preview of a theme shows when it was drawn from the theme's
\* saved values (NoPreview: there is no such theme, or no drawing of it)
SavedLook(files, theme_name) ==
    LET t == Theme_load(Theme_init("face", theme_name, ThemesDir), files)
    IN IF theme_name # "default" /\ ~Exists(files, ThemePath(ThemesDir, theme_name))
       THEN NoPreview
       ELSE IF t.raised THEN NoPreview
       ELSE IF DrawRaises(t.store.props) THEN NoPreview
       ELSE LookOf(t.store.props)

\* AnalogClock.__init__, and the previews earlier runs of the program left
GridInit ==
    /\ store = NoGui /\ pc = "idle" /\ dialog = NoGui /\ frame = NoGui
    /\ last = [raised |-> FALSE]
    /\ \E active \in {"default", "t1"}, f \in GridThemeFiles, shown \in SUBSET {"default", "t1"} :
         /\ fs = [p \in Paths |->
                    IF p = SettingsFile
                    THEN Object([k \in AllKeys("settings") |->
                                   IF k = "active_theme_name" THEN PyStr(active)
                                   ELSE Missing])
                    ELSE IF p = ThemePath(ThemesDir, "t1") THEN f ELSE Absent]
         /\ LET st == load(Settings_init(SettingsFile), fs)
                th == load(Theme_init("face", st.store.props["active_theme_name"][2],
                                      ThemesDir), fs)
            IN /\ ~st.raised /\ ~th.raised
               /\ clock = [theme |-> th.store, settings |-> st.store]
         /\ assets = [preview |-> [n \in ThemeNames |->
                                     IF n \in shown THEN SavedLook(fs, n) ELSE NoPreview],
                      in_memory_preview_pixbuf |-> None]

\* CustomizeDialog.__init__ (on_customize_clicked opens the dialog): the
\* pixbuf is None and the grid is populated
CustomizeDialog_init(pio) ==
    /\ pio \in PreviewIOs
    /\ GridStep(_populate_themes([GridState EXCEPT !.grid.in_memory_preview_pixbuf = None],
                                 pio))

\* _on_theme_property_changed(property_name, value)
_on_theme_property_changed(property_name, value) ==
    /\ property_name \in DeclaredKeys("face")
    /\ GridStep(_regenerate_current_theme_preview(
                    [GridState EXCEPT !.clock.theme =
                         PropertyBag_set(clock.theme, property_name, value).store]))

\* on_response: APPLY is the Save button, CLOSE the Close button
on_response(response_id, response, theme_name, save_as_response, pio) ==
    /\ response \in Answers(response_id = "CLOSE" /\ clock.theme.dirty,
                            {"CANCEL", "NO", "YES"})
    /\ save_as_response \in Answers(/\ clock.theme.name = "default"
                                    /\ response_id = "APPLY" \/ response = "YES",
                                    {"OK", "CANCEL"})
    /\ IF response_id = "APPLY"
       THEN GridStep(_save_theme_call(GridState, theme_name, save_as_response, pio))
       ELSE GridStep(_handle_close_call(GridState, response, theme_name,
                                        save_as_response, pio))

\* the Save As button
save_as_clicked(theme_name, response, pio) ==
    /\ response \in {"OK", "CANCEL"}
    /\ GridStep(on_save_theme_as_clicked_call(GridState, theme_name, response, pio))

\* a theme of the grid is activated
theme_activated(theme_name, response, save_as, save_as_response, pio) ==
    /\ theme_name = "default" \/ Exists(fs, ThemePath(ThemesDir, theme_name))
    /\ response \in Answers(clock.theme.dirty, {"CANCEL", "NO", "YES"})
    /\ save_as_response \in Answers(clock.theme.name = "default" /\ response = "YES",
                                    {"OK", "CANCEL"})
    /\ GridStep(on_theme_activated_call(GridState, theme_name, response, save_as,
                                        save_as_response, pio))

\* the Duplicate button
duplicate_clicked(new_name, pio) ==
    /\ new_name # ""
    /\ GridStep(on_duplicate_theme_clicked_call(GridState, new_name, pio))

\* the Delete button, for a theme of the grid other than 'default'
delete_clicked(theme_name, pio) ==
    /\ theme_name # "default"
    /\ Exists(fs, ThemePath(ThemesDir, theme_name))
    /\ GridStep(on_delete_theme_clicked_call(GridState, theme_name, pio))

\* the colour button of the dialog sets a colour other than the default's
GridNext ==
    \/ \E pio \in PreviewIOs : CustomizeDialog_init(pio)
    \/ \E k \in EditKeys : \E v \in SetValues(k) \ {ThemeFaceDefaults[k]} :
          _on_theme_property_changed(k, v)
    \/ \E id \in {"APPLY", "CLOSE"}, resp \in {"NONE", "CANCEL", "NO", "YES"},
          n \in GridNames, sresp \in {"NONE", "OK", "CANCEL"}, pio \in PreviewIOs :
          on_response(id, resp, n, sresp, pio)
    \/ \E n \in GridNames, resp \in {"OK", "CANCEL"}, pio \in PreviewIOs :
          save_as_clicked(n, resp, pio)
    \/ \E n \in ThemeNames, resp \in {"NONE", "CANCEL", "NO", "YES"}, sa \in GridNames,
          sresp \in {"NONE", "OK", "CANCEL"}, pio \in PreviewIOs :
          theme_activated(n, resp, sa, sresp, pio)
    \/ \E n \in GridNames, pio \in PreviewIOs : duplicate_clicked(n, pio)
    \/ \E n \in ThemeNames, pio \in PreviewIOs : delete_clicked(n, pio)

GridSpec == GridInit /\ [][GridNext]_vars

\* the settings name the theme the renderer uses
ActiveThemeNamed ==
    clock.settings.props["active_theme_name"] = PyStr(clock.theme.name)

\* C25: after start-up and after every dialog operation that ran to its end
\* (apply, duplicate, save as, delete, the previews generated for the listed
\* themes) the settings' active_theme_name is the name of the theme object
\* the renderer uses; and generating the previews of the grid leaves the
\* renderer with the theme object it had.
C25_ActiveThemeNamed ==
    /\ ActiveThemeNamed
    /\ [][/\ ~last'.raised => ActiveThemeNamed'
          /\ (\E pio \in PreviewIOs : CustomizeDialog_init(pio)) => clock'.theme = clock.theme]_vars

\* every preview file shows the values saved under its theme's name
PreviewsDepictSaved ==
    \A n \in ThemeNames :
       assets.preview[_get_theme_preview_path(n)] # NoPreview =>
          assets.preview[_get_theme_preview_path(n)] = SavedLook(fs, n)

\* the Save button or the Save As button, the new name given and confirmed
SavedUnderNewName ==
    \E n \in GridNames, pio \in PreviewIOs :
       \/ on_response("APPLY", "NONE", n, "OK", pio)
       \/ save_as_clicked(n, "OK", pio)

\* C29: the preview file of a theme always shows values saved under that
\* theme's name; when the theme 'default' has unsaved edits, saving (which
\* goes through Save As) leaves the preview file of 'default' as it was and
\* the preview file of the new theme shows the edits.
C29_PreviewDepictsSavedValues ==
    /\ PreviewsDepictSaved
    /\ [][/\ PreviewsDepictSaved'
          /\ (/\ clock.theme.name = "default" /\ clock.theme.dirty
              /\ SavedUnderNewName /\ ~last'.raised) =>
                /\ assets'.preview[_get_theme_preview_path("default")]
                      = assets.preview[_get_theme_preview_path("default")]
                /\ assets'.preview[_get_theme_preview_path(clock'.theme.name)]
                      = LookOf(clock.theme.props)]_vars

-----------------------------------------------------------------------------
(* The width sliders of the hands (dialogs.py) beside the renderer.        *)
(*                                                                         *)
(* clock and assets are those of the renderer, the theme with the width    *)
(* keys of the hands in it; last is the call of _on_theme_property_changed *)
(* a width slider made, frame the preview drawn at its end.                *)

HandWidthKeys == {WidthKey(h) : h \in HandTypes} \cup {ImageWidthKey(h) : h \in HandTypes}

\* the values a width slider reports
WidthValues == {PyFloat("0.05"), PyFloat("2.0")}

\* The hand settings of a theme: what the pickers set (none, a built-in
\* set, a set of the user of which no file is left) and what a theme file
\* may hold beside that (a source without a name).
WidthHandChoices ==
    HandChoices \cup {<<PyStr("user"), PyStr("classic")>>}

WidthTheme(choice) ==
    [k \in RenderKeys \cup HandWidthKeys |->
        IF k \in HandWidthKeys THEN ThemeHandDefaults[k]
        ELSE RenderTheme(choice, Black, PyTrue)[k]]

NoWidthCall == [hand_type |-> "", property_name |-> "", value |-> None]

WidthInit ==
    /\ store = NoGui /\ pc = "idle" /\ fs = NoGui /\ dialog = NoGui
    /\ last = NoWidthCall
    /\ assets \in AssetLayouts
    /\ \E choice \in [HandTypes -> WidthHandChoices] :
          clock = [theme |-> WidthTheme(choice),
                   settings |-> [show_date_box |-> PyTrue, show_second_hand |-> PyTrue],
                   _hand_image_cache |-> NoCache]
    /\ frame = NoFrame

\* the property a width slider writes: the image width unless the source of
\* the hand is 'none'
WidthProperty(theme, hand_type) ==
    IF theme[SourceKey(hand_type)] # PyStr("none")
    THEN ImageWidthKey(hand_type) ELSE WidthKey(hand_type)

\* on_hour_hand_width_changed, on_minute_hand_width_changed,
\* on_second_hand_width_changed: the property is chosen by the source of the
\* hand, and _on_theme_property_changed sets it and draws the preview
on_hand_width_changed(hand_type, value) ==
    /\ LET property_name == WidthProperty(clock.theme, hand_type)
           theme == [clock.theme EXCEPT ![property_name] = value]
           r == Render("preview", clock._hand_image_cache, theme, clock.settings, assets)
       IN /\ clock' = [clock EXCEPT !.theme = theme, !._hand_image_cache = r.cache]
          /\ frame' = r.frame
          /\ last' = [hand_type |-> hand_type, property_name |-> property_name,
                      value |-> value]
    /\ UNCHANGED <<store, fs, pc, dialog, assets>>

\* on_draw between the slider's moves
width_on_draw ==
    /\ LET r == Render("live", clock._hand_image_cache, clock.theme, clock.settings, assets)
       IN /\ clock' = [clock EXCEPT !._hand_image_cache = r.cache]
          /\ frame' = r.frame
    /\ UNCHANGED <<store, fs, last, pc, dialog, assets>>

WidthNext ==
    \/ \E h \in HandTypes, value \in WidthValues : on_hand_width_changed(h, value)
    \/ width_on_draw

WidthSpec == WidthInit /\ [][WidthNext]_vars

\* the mode in which a frame drew a hand
ModeDrawn(f, hand_type) ==
    LET i == CHOOSE i \in DOMAIN f.ops : f.ops[i].stage = hand_type \o "_hand"
    IN f.ops[i].mode

\* C26: the width slider of hand h writes h_hand_image_width exactly when the
\* renderer draws the hand in image mode, and h_hand_width exactly when it
\* draws it in vector mode, whatever the image source, the image name and
\* the asset files are.
C26_WidthControlFollowsRenderer ==
    (last # NoWidthCall /\ frame.kind = "preview") =>
       /\ last.property_name = ImageWidthKey(last.hand_type)
             <=> ModeDrawn(frame, last.hand_type) = "image"
       /\ last.property_name = WidthKey(last.hand_type)
             <=> ModeDrawn(frame, last.hand_type) = "vector"

-----------------------------------------------------------------------------
(* Copies into the user's directories (dialogs.py, dsclock.py).            *)
(*                                                                         *)
(* assets holds the three directories: textures (the user's textures       *)
(* directory), hands (the user's hand sets) and themes (the user's themes  *)
(* directory), each entry "absent", "user" (there before the copy),        *)
(* "copy" (a whole copy of the chosen or bundled source) or "partial"      *)
(* (what a copy that raised left).  last is the last call: its name and    *)
(* what it returned.                                                       *)

\* what shutil.copy2 and shutil.copytree do: the copy is made; they raise
\* before anything is created; they raise after part of it is written
CopyIOs == {"ok", "fails", "partial"}

HandSetBase == "classic"

\* folder_name, then f"{folder_name}_{i}" with the folder_name of the pass
\* before: classic, classic_1, classic_1_2, ...
RECURSIVE HandSetName(_)
HandSetName(i) ==
    IF i = 0 THEN HandSetBase ELSE HandSetName(i - 1) \o "_" \o str(i)

UserHandSets == {HandSetName(i) : i \in 0 .. MaxImportIndex}

\* the *.json files of the bundled_themes directory
BundledThemes == {"classic.json", "modern.json"}

\* the pass of the while loop of _import_hand_set at which dest does not
\* exist
RECURSIVE FreeHandSetIndex(_, _)
FreeHandSetIndex(files, i) ==
    IF files[HandSetName(i)] = "absent" THEN i
    ELSE FreeHandSetIndex(files, i + 1)

\* a destination that is the chosen folder's name, free or not
HandSetDestination_Base(files) == HandSetName(0)

\* the folder_name _import_hand_set settles on
HandSetDestination(files) == HandSetName(FreeHandSetIndex(files, 0))

\* what a copy leaves at its destination
Copied(io) ==
    CASE io = "ok" -> "copy" [] io = "partial" -> "partial" [] OTHER -> "absent"

ImportInit ==
    /\ store = NoGui /\ fs = NoGui /\ pc = "idle" /\ clock = NoGui /\ dialog = NoGui
    /\ frame = NoGui
    /\ last = [op |-> "init", ret |-> None]
    /\ \E textures \in [UserTextures -> {"absent", "user"}],
          hands \in [UserHandSets -> {"absent", "user"}],
          themes \in [BundledThemes -> {"absent", "user"}] :
          assets = [textures |-> textures, hands |-> hands, themes |-> themes]

\* _on_import_texture_from_picker: _import_texture_file with a file chosen
\* whose name is base; the name returned is that of the copy, None if the
\* copy raised
_on_import_texture_from_picker(io) ==
    /\ \E path \in UserTextures : assets.textures[path] = "absent"
    /\ LET base == ImportName(FreeTextureIndex(assets.textures, 0))
           dest == <<"user_textures", base>>
       IN /\ assets' = [assets EXCEPT !.textures[dest] = Copied(io)]
          /\ last' = [op |-> "_import_texture_file",
                      ret |-> IF io = "ok" THEN PyStr(base) ELSE None]
    /\ UNCHANGED <<store, fs, pc, clock, dialog, frame>>

\* _on_import_hand_set_from_picker: _import_hand_set with a folder chosen that
\* holds the three images
_on_import_hand_set_from_picker(io) ==
    /\ \E name \in UserHandSets : assets.hands[name] = "absent"
    /\ LET folder_name == HandSetDestination(assets.hands)
       IN /\ assets' = [assets EXCEPT !.hands[folder_name] = Copied(io)]
          /\ last' = [op |-> "_import_hand_set",
                      ret |-> IF io = "ok" THEN PyStr(folder_name) ELSE None]
    /\ UNCHANGED <<store, fs, pc, clock, dialog, frame>>

\* _install_bundled_themes (every start of the program): each bundled theme
\* that is not in the user's directory is copied there; a copy that raises
\* ends the loop, with the themes in reached copied before it and, if it had
\* begun to write, a part of the theme it was copying
_install_bundled_themes(reached, io) ==
    /\ io = "ok" => reached = BundledThemes
    /\ \E broken \in (IF io = "partial"
                      THEN {f \in BundledThemes \ reached : assets.themes[f] = "absent"}
                      ELSE {""}) :
          assets' = [assets EXCEPT !.themes =
                      [filename \in BundledThemes |->
                          IF assets.themes[filename] # "absent" THEN assets.themes[filename]
                          ELSE IF filename \in reached THEN "copy"
                          ELSE IF filename = broken THEN "partial"
                          ELSE "absent"]]
    /\ last' = [op |-> "_install_bundled_themes", ret |-> None]
    /\ UNCHANGED <<store, fs, pc, clock, dialog, frame>>

ImportNext ==
    \/ \E io \in CopyIOs : _on_import_texture_from_picker(io)
    \/ \E io \in CopyIOs : _on_import_hand_set_from_picker(io)
    \/ \E reached \in SUBSET BundledThemes, io \in CopyIOs :
          _install_bundled_themes(reached, io)

ImportSpec == ImportInit /\ [][ImportNext]_vars

\* the entries of a directory that a step created
Created(before, after) == {e \in DOMAIN before : before[e] = "absent" /\ after[e] # "absent"}

\* an import created the entry it names, or no entry if it names none
ReturnsEntryCreated(op, before, after, entry) ==
    last'.op = op =>
       Created(before, after) = IF last'.ret = None THEN {} ELSE {entry}

\* C30 (as stated): no copy into the user's directories overwrites an entry,
\* and an import returns exactly the name of the entry it created: the
\* entries an import creates are the one it names, none if it returns None.
C30_ImportReturnsEntryCreated ==
    [][/\ \A d \in {"textures", "hands", "themes"} :
            \A e \in DOMAIN assets[d] :
               assets[d][e] # "absent" => assets'[d][e] = assets[d][e]
       /\ ReturnsEntryCreated("_import_texture_file", assets.textures, assets'.textures,
                              <<"user_textures", last'.ret[2]>>)
       /\ ReturnsEntryCreated("_import_hand_set", assets.hands, assets'.hands,
                              last'.ret[2])]_vars

\* C30: no copy into the user's directories overwrites an entry: every entry
\* that exists is left as it is; an import that returns a name has created
\* exactly the entry of that name, as a whole copy, and nothing else (an
\* import whose copy raised returns None); and installing the bundled themes
\* creates themes only, each from the bundled theme of its name.
C30_CopiesNeverOverwrite ==
    [][/\ \A d \in {"textures", "hands", "themes"} :
            \A e \in DOMAIN assets[d] :
               assets[d][e] # "absent" => assets'[d][e] = assets[d][e]
       /\ (last'.op = "_import_texture_file" /\ last'.ret # None) =>
             /\ Created(assets.textures, assets'.textures)
                   = {<<"user_textures", last'.ret[2]>>}
             /\ assets'.textures[<<"user_textures", last'.ret[2]>>] = "copy"
             /\ assets'.hands = assets.hands /\ assets'.themes = assets.themes
       /\ (last'.op = "_import_hand_set" /\ last'.ret # None) =>
             /\ Created(assets.hands, assets'.hands) = {last'.ret[2]}
             /\ assets'.hands[last'.ret[2]] = "copy"
             /\ assets'.textures = assets.textures /\ assets'.themes = assets.themes
       /\ last'.op = "_install_bundled_themes" =>
             /\ assets'.textures = assets.textures /\ assets'.hands = assets.hands
             /\ \A e \in Created(assets.themes, assets'.themes) :
                   assets'.themes[e] \in {"copy", "partial"}]_vars

\* a hand set was imported beside the user's set of the same name, which is
\* still there, and a bundled theme installed beside a theme of the user
C30_Witness ==
    /\ last.op = "_import_hand_set" /\ last.ret = PyStr(HandSetName(1))
    /\ assets.hands[HandSetName(0)] = "user"
    /\ assets.hands[HandSetName(1)] = "copy"
    /\ \E a, b \in BundledThemes : assets.themes[a] = "user" /\ assets.themes[b] = "copy"
    /\ \E i \in 0 .. MaxImportIndex :
          assets.textures[<<"user_textures", ImportName(i)>>] = "copy"

====
